---- MODULE Spec2Model ----
(***************************************************************************)
(* The order / position / lot engine of STX.Account.Demo and the calls the *)
(* Trade-From-Chart controller (STX.TFC) makes into it.                    *)
(*                                                                         *)
(* Conventions of the translation                                          *)
(*   - money is held in cents, so a JavaScript price 24.11 is 2411 here;   *)
(*   - a JavaScript object used as a map is a function whose DOMAIN is the *)
(*     set of keys that are present; openOrders also needs the order in    *)
(*     which the keys were inserted (for..in), kept in ooKeys;             *)
(*   - a numeric field that the code only ever tests for truthiness        *)
(*     (limit, stop, marketIfTouched) is 0 when it is absent;              *)
(*   - an id-valued field (id, tradeid, vspId, oco) is "" when it is       *)
(*     absent/null, and oco is "true" for the boolean true;                *)
(*   - Number.prototype.toFixed(2) is rounding to the nearest cent; on an  *)
(*     exact half cent the binary value of the double decides, so both     *)
(*     neighbours are possible outcomes.                                   *)
(***************************************************************************)
EXTENDS Integers, Sequences, FiniteSets, TLC

VARIABLES
    positions,    \* account.positions : symbol -> position
    trades,       \* account.trades    : symbol -> list of lots
    openOrders,   \* account.openOrders: symbol -> list of open orders
    ooKeys,       \* insertion order of the keys of account.openOrders
    balances,     \* account.balances
    nextId,       \* number of ids STX.uniqueID has handed out
    chartSymbol,  \* tfc.stx.chart.symbol
    ops,          \* number of operations performed so far
    last,         \* the operation performed by the last step and its arguments
    pre,          \* positions, trades and openOrders as they were before it
    symbolArg,    \* the symbol handed to account.tradability
    reported,     \* what tradability has passed to its callback, and how often
    tfc,          \* the STX.TFC controller: config, dialogs, calls in flight
    updates       \* the updateData calls: counter, callbacks due, renders

vars == <<positions, trades, openOrders, ooKeys, balances, nextId,
          chartSymbol, ops, last, pre, symbolArg, reported, tfc, updates>>

----------------------------------------------------------------------------
(* Bounds and input sets *)

MaxOps == 3
MaxSymbolLen == 8

Symbols == {"IBM", "GE", "SPY", "LNKD", "TSLA"}
Qtys == {100, 300}
Prices == {2411, 2500}
RestPrice == 2600
OtoStop == 2200
OtoLimit == 2600

----------------------------------------------------------------------------
(* JavaScript objects as maps *)

Has(m, k) == k \in DOMAIN m
Put(m, k, v) == [x \in (DOMAIN m) \cup {k} |-> IF x = k THEN v ELSE m[x]]
Del(m, k) == [x \in (DOMAIN m) \ {k} |-> m[x]]
Get(m, k) == IF Has(m, k) THEN m[k] ELSE <<>>

RemoveAt(s, i) == SubSeq(s, 1, i - 1) \o SubSeq(s, i + 1, Len(s))
Abs(n) == IF n < 0 THEN -n ELSE n

RECURSIVE SumQty(_)
SumQty(s) == IF s = <<>> THEN 0 ELSE s[1].quantity + SumQty(Tail(s))

----------------------------------------------------------------------------
(* Records *)

NoProtect == [has |-> FALSE, limit |-> 0, stop |-> 0]
Protect(l, s) == [has |-> TRUE, limit |-> l, stop |-> s]

Trade(id, quantity, basis, price, protect) ==
    [id |-> id, quantity |-> quantity, basis |-> basis, price |-> price,
     protect |-> protect]

Position(quantity, basis, price, prevClose) ==
    [quantity |-> quantity, basis |-> basis, price |-> price,
     prevClose |-> prevClose]

Leg(id, action, quantity, limit, stop, tif, oco) ==
    [id |-> id, action |-> action, quantity |-> quantity, limit |-> limit,
     stop |-> stop, tif |-> tif, oco |-> oco]

OpenOrder(id, tradeid, action, quantity, limit, stop, tif, oco, oto, vspId) ==
    [id |-> id, tradeid |-> tradeid, action |-> action,
     quantity |-> quantity, limit |-> limit, stop |-> stop,
     marketIfTouched |-> 0, tif |-> tif, oco |-> oco, oto |-> oto,
     vspId |-> vspId]

(* STX.uniqueID: the n-th id handed out *)
uniqueID(n) == "U" \o ToString(n)

----------------------------------------------------------------------------
(* new STX.Account.Demo() *)

DemoPositions ==
    [s \in {"IBM", "GE", "SPY", "LNKD"} |->
        CASE s = "IBM"  -> Position(1000, 12613, 12913, 12313)
          [] s = "GE"   -> Position(100, 2611, 2411, 2611)
          [] s = "SPY"  -> Position(-1000, 18711, 18711, 19011)
          [] s = "LNKD" -> Position(-100, 23000, 18600, 24000)]

DemoTrades ==
    [s \in {"IBM", "GE", "SPY", "LNKD"} |->
        CASE s = "IBM"  ->
                << Trade("IBM001", 300, 12413, 12913, Protect(16500, 13500)),
                   Trade("IBM002", 600, 12713, 12913, NoProtect),
                   Trade("IBM003", 100, 12613, 12913, NoProtect) >>
          [] s = "GE"   ->
                << Trade("GE001", 100, 2611, 2411, Protect(3000, 2500)) >>
          [] s = "SPY"  ->
                << Trade("SPY001", -700, 19045, 18711, NoProtect),
                   Trade("SPY002", -300, 17932, 18711, NoProtect) >>
          [] s = "LNKD" ->
                << Trade("LNKD001", -100, 23000, 18600, NoProtect) >>]

DemoOpenOrders ==
    [s \in {"IBM", "TSLA", "GE", "LNKD"} |->
        CASE s = "IBM"  ->
                << OpenOrder("1", "", "sell", 500, 19700, 0, "GTC", "", <<>>, ""),
                   OpenOrder("2", "", "sell", 500, 19600, 0, "GTC", "", <<>>, "IBM002"),
                   OpenOrder("9", "IBM001", "sell", 300, 16500, 0, "GTC", "10", <<>>, ""),
                   OpenOrder("10", "IBM001", "sell", 300, 0, 13500, "GTC", "9", <<>>, "") >>
          [] s = "TSLA" ->
                << OpenOrder("3", "", "buy", 10, 17000, 0, "DAY", "", <<>>, "") >>
          [] s = "GE"   ->
                << OpenOrder("4", "GE001", "sell", 100, 3000, 0, "GTC", "5", <<>>, ""),
                   OpenOrder("5", "GE001", "sell", 100, 0, 2500, "GTC", "4", <<>>, "") >>
          [] s = "LNKD" ->
                << OpenOrder("6", "", "buy", 100, 11200, 0, "DAY", "",
                        << Leg("7", "sell", 100, 13000, 0, "GTC", "8"),
                           Leg("8", "sell", 100, 0, 11000, "GTC", "7") >>, ""),
                   OpenOrder("9", "", "buy", 100, 11200, 0, "DAY", "",
                        << Leg("10", "sell", 100, 13000, 0, "GTC", "true") >>, "") >>]

DemoOoKeys == <<"IBM", "TSLA", "GE", "LNKD">>

(* an id that no open order carries: the oto child "7" of LNKD's order "6" *)
UnknownId == "7"

(* STX.Account: this.balances={} ; balances.cash is undefined until fetched. *)
(* state is "undefined", "NaN" or "number"; cash and buyingPower are        *)
(* meaningful in state "number" only.                                       *)
NoBalances == [state |-> "undefined", cash |-> 0, buyingPower |-> 0]

----------------------------------------------------------------------------
(* STX.Account.Demo.prototype.fetchBalances: the callback of STX.postAjax  *)
(* with the status and the parsed response                                 *)

(* what the server may answer: any balances object, whose buyingPower need *)
(* not be twice its cash                                                   *)
Payloads ==
    {[state |-> "number", cash |-> 10000000, buyingPower |-> 20000000],
     [state |-> "number", cash |-> 5000000, buyingPower |-> 7500000]}

(* fetchBalances, dropping the cached balances when the fetch fails *)
fetchBalancesDropsCache(bal, status, payload) ==
    IF status # 200 THEN [balances |-> NoBalances, cb |-> 1]
    ELSE [balances |-> IF bal.state = "undefined" THEN payload ELSE bal,
          cb |-> 1]

(* cb is the number of times the callback is invoked *)
fetchBalances(bal, status, payload) ==
    IF status # 200 THEN [balances |-> bal, cb |-> 1]
    ELSE [balances |-> IF bal.state = "undefined" THEN payload ELSE bal,
          cb |-> 1]

----------------------------------------------------------------------------
(* STX.Account.prototype.tradability. A symbol is the sequence of its      *)
(* characters; given is FALSE for an argument that is undefined or null.   *)

SymbolChars == {"A", "$", "^"}

NoSymbol == [given |-> FALSE, chars |-> <<>>]

Contains(chars, c) == \E n \in 1..Len(chars) : chars[n] = c

(* isIndex, without the exception for forex symbols *)
isIndexAnyCaret(chars) == Contains(chars, "$") \/ Contains(chars, "^")

isIndex(chars) ==
    IF Contains(chars, "$") THEN TRUE
    ELSE IF Contains(chars, "^") THEN Len(chars) # 7
    ELSE FALSE

(* the object passed to cb, and the number of times cb is invoked *)
tradability(symbol) ==
    [called |-> TRUE, cb |-> 1,
     tradable |-> IF ~symbol.given \/ symbol.chars = <<>> THEN FALSE
                  ELSE ~isIndex(symbol.chars),
     shortable |-> TRUE, marketable |-> TRUE]

NotReported ==
    [called |-> FALSE, cb |-> 0, tradable |-> FALSE, shortable |-> FALSE,
     marketable |-> FALSE]

----------------------------------------------------------------------------
(* Number.prototype.toFixed(2) of the quotient num/den of two amounts, in  *)
(* cents: the nearest whole cents; both neighbours on an exact half cent.  *)
(* A zero denominator gives NaN/Infinity, written 0: the position that     *)
(* would hold it is deleted in the same call.                              *)
toFixed2(num, den) ==
    IF den = 0 THEN {0}
    ELSE LET n == IF den < 0 THEN -num ELSE num
             d == Abs(den)
             f == n \div d
             r == n - f * d
         IN  IF 2 * r < d THEN {f}
             ELSE IF 2 * r > d THEN {f + 1}
             ELSE {f, f + 1}

----------------------------------------------------------------------------
(* STX.Account.Demo.prototype.execute *)

(* signed quantity of a fill *)
signedQuantity(order) ==
    IF order.action \in {"sell", "short"} THEN -order.quantity
    ELSE order.quantity

executeBalances(bal, quantity, price) ==
    IF bal.state = "number"
    THEN [state |-> "number", cash |-> bal.cash - quantity * price,
          buyingPower |-> 2 * (bal.cash - quantity * price)]
    ELSE [state |-> "NaN", cash |-> 0, buyingPower |-> 0]

(* the action after the reclassification against a short position *)
reclassify(pos, symbol, action) ==
    IF Has(pos, symbol) /\ pos[symbol].quantity < 0
    THEN (IF action = "buy" THEN "cover"
          ELSE IF action = "sell" THEN "short" ELSE action)
    ELSE action

(* executeBasisChoices, averaging the two prices without their quantities *)
executeBasisChoicesUnweighted(pos, order, price) ==
    LET action == reclassify(pos, order.symbol, order.action)
    IN  IF Has(pos, order.symbol) /\ action \in {"buy", "short"}
        THEN toFixed2(pos[order.symbol].basis + price, 2)
        ELSE {0}

(* the values toFixed(2) can give the recomputed basis *)
executeBasisChoices(pos, order, price) ==
    LET quantity == signedQuantity(order)
        action == reclassify(pos, order.symbol, order.action)
    IN  IF Has(pos, order.symbol) /\ action \in {"buy", "short"}
        THEN LET p == pos[order.symbol]
             IN  toFixed2(p.quantity * p.basis + quantity * price,
                          p.quantity + quantity)
        ELSE {0}

(* executePosition, adding the unsigned order quantity to the position *)
executePositionUnsigned(pos, order, price, basis) ==
    LET symbol == order.symbol
        quantity == signedQuantity(order)
        action == reclassify(pos, symbol, order.action)
    IN  IF ~Has(pos, symbol)
        THEN Put(pos, symbol, Position(quantity, price, price, price))
        ELSE LET p == pos[symbol]
                 b == IF action \in {"buy", "short"} THEN basis ELSE p.basis
                 q == p.quantity + order.quantity
             IN  IF q = 0 THEN Del(pos, symbol)
                 ELSE Put(pos, symbol, Position(q, b, price, p.prevClose))

(* executePosition, without the delete of a position that reaches 0 *)
executePositionKeepsZero(pos, order, price, basis) ==
    LET symbol == order.symbol
        quantity == signedQuantity(order)
        action == reclassify(pos, symbol, order.action)
    IN  IF ~Has(pos, symbol)
        THEN Put(pos, symbol, Position(quantity, price, price, price))
        ELSE LET p == pos[symbol]
                 b == IF action \in {"buy", "short"} THEN basis ELSE p.basis
             IN  Put(pos, symbol,
                     Position(p.quantity + quantity, b, price, p.prevClose))

executePosition(pos, order, price, basis) ==
    LET symbol == order.symbol
        quantity == signedQuantity(order)
        action == reclassify(pos, symbol, order.action)
    IN  IF ~Has(pos, symbol)
        THEN Put(pos, symbol, Position(quantity, price, price, price))
        ELSE LET p == pos[symbol]
                 b == IF action \in {"buy", "short"} THEN basis ELSE p.basis
                 q == p.quantity + quantity
             IN  IF q = 0 THEN Del(pos, symbol)
                 ELSE Put(pos, symbol, Position(q, b, price, p.prevClose))

(* newTrade.protect from order.oto *)
otoProtect(oto) ==
    IF oto = <<>> THEN NoProtect
    ELSE LET s == IF oto[1].stop # 0 THEN oto[1].stop
                  ELSE IF Len(oto) > 1 /\ oto[2].stop # 0 THEN oto[2].stop
                  ELSE 0
             l == IF oto[1].limit # 0 THEN oto[1].limit
                  ELSE IF Len(oto) > 1 /\ oto[2].limit # 0 THEN oto[2].limit
                  ELSE 0
         IN  Protect(l, s)

(* spliceTradeOrders, without stepping back after a splice: the order that *)
(* follows a removed one is skipped                                        *)
RECURSIVE spliceTradeOrdersSkips(_, _, _)
spliceTradeOrdersSkips(oo, p1, tradeid) ==
    IF p1 > Len(oo) THEN oo
    ELSE IF oo[p1].tradeid = tradeid
         THEN spliceTradeOrdersSkips(RemoveAt(oo, p1), p1 + 1, tradeid)
         ELSE spliceTradeOrdersSkips(oo, p1 + 1, tradeid)

(* for(p1...) : remove the open orders that reference the lot *)
RECURSIVE spliceTradeOrders(_, _, _)
spliceTradeOrders(oo, p1, tradeid) ==
    IF p1 > Len(oo) THEN oo
    ELSE IF oo[p1].tradeid = tradeid
         THEN spliceTradeOrders(RemoveAt(oo, p1), p1, tradeid)
         ELSE spliceTradeOrders(oo, p1 + 1, tradeid)

(* for(p2...) : o2.quantity-=qty on the open orders that reference the lot *)
reduceTradeOrders(oo, tradeid, qty) ==
    [p2 \in 1..Len(oo) |->
        IF oo[p2].tradeid = tradeid
        THEN [oo[p2] EXCEPT !.quantity = @ - qty]
        ELSE oo[p2]]

(* consumeLots, forgetting what is left to close once the lots are used up *)
RECURSIVE consumeLotsDropsResidual(_, _, _, _, _)
consumeLotsDropsResidual(tr, oo, i, qty, vspId) ==
    IF i > Len(tr) THEN [trades |-> tr, openOrders |-> oo, qty |-> 0]
    ELSE IF vspId # "" /\ tr[i].id # vspId
         THEN consumeLotsDropsResidual(tr, oo, i + 1, qty, vspId)
    ELSE IF Abs(tr[i].quantity) <= Abs(qty)
         THEN consumeLotsDropsResidual(RemoveAt(tr, i),
                          IF tr[i].protect.has
                          THEN spliceTradeOrders(oo, 1, tr[i].id) ELSE oo,
                          i, qty - tr[i].quantity, vspId)
    ELSE [trades |-> [tr EXCEPT ![i].quantity = @ - qty],
          openOrders |-> IF tr[i].protect.has
                         THEN reduceTradeOrders(oo, tr[i].id, qty) ELSE oo,
          qty |-> 0]

(* consumeLots, leaving the oldest lot alone while a newer one exists *)
RECURSIVE consumeLotsSkipsOldest(_, _, _, _, _)
consumeLotsSkipsOldest(tr, oo, i, qty, vspId) ==
    IF i > Len(tr) THEN [trades |-> tr, openOrders |-> oo, qty |-> qty]
    ELSE IF i = 1 /\ Len(tr) > 1 /\ vspId = ""
         THEN consumeLotsSkipsOldest(tr, oo, 2, qty, vspId)
    ELSE IF vspId # "" /\ tr[i].id # vspId
         THEN consumeLotsSkipsOldest(tr, oo, i + 1, qty, vspId)
    ELSE IF Abs(tr[i].quantity) <= Abs(qty)
         THEN consumeLotsSkipsOldest(RemoveAt(tr, i),
                          IF tr[i].protect.has
                          THEN spliceTradeOrders(oo, 1, tr[i].id) ELSE oo,
                          i, qty - tr[i].quantity, vspId)
    ELSE [trades |-> [tr EXCEPT ![i].quantity = @ - qty],
          openOrders |-> IF tr[i].protect.has
                         THEN reduceTradeOrders(oo, tr[i].id, qty) ELSE oo,
          qty |-> 0]

(* consumeLots, absorbing a lot only when it is strictly smaller than what *)
(* is left to close                                                        *)
RECURSIVE consumeLotsStrict(_, _, _, _, _)
consumeLotsStrict(tr, oo, i, qty, vspId) ==
    IF i > Len(tr) THEN [trades |-> tr, openOrders |-> oo, qty |-> qty]
    ELSE IF vspId # "" /\ tr[i].id # vspId
         THEN consumeLotsStrict(tr, oo, i + 1, qty, vspId)
    ELSE IF Abs(tr[i].quantity) < Abs(qty)
         THEN consumeLotsStrict(RemoveAt(tr, i),
                          IF tr[i].protect.has
                          THEN spliceTradeOrders(oo, 1, tr[i].id) ELSE oo,
                          i, qty - tr[i].quantity, vspId)
    ELSE [trades |-> [tr EXCEPT ![i].quantity = @ - qty],
          openOrders |-> IF tr[i].protect.has
                         THEN reduceTradeOrders(oo, tr[i].id, qty) ELSE oo,
          qty |-> 0]

(* consumeLots, taking the lots first in first out whatever order.vspId is *)
RECURSIVE consumeLotsFifo(_, _, _, _, _)
consumeLotsFifo(tr, oo, i, qty, vspId) ==
    IF i > Len(tr) THEN [trades |-> tr, openOrders |-> oo, qty |-> qty]
    ELSE IF Abs(tr[i].quantity) <= Abs(qty)
         THEN consumeLotsFifo(RemoveAt(tr, i),
                          IF tr[i].protect.has
                          THEN spliceTradeOrders(oo, 1, tr[i].id) ELSE oo,
                          i, qty - tr[i].quantity, vspId)
    ELSE [trades |-> [tr EXCEPT ![i].quantity = @ - qty],
          openOrders |-> IF tr[i].protect.has
                         THEN reduceTradeOrders(oo, tr[i].id, qty) ELSE oo,
          qty |-> 0]

(* for(i...) over trades[order.symbol] of a closing fill; qty is what is   *)
(* left to close, with the sign of the lots it closes                      *)
RECURSIVE consumeLots(_, _, _, _, _)
consumeLots(tr, oo, i, qty, vspId) ==
    IF i > Len(tr) THEN [trades |-> tr, openOrders |-> oo, qty |-> qty]
    ELSE IF vspId # "" /\ tr[i].id # vspId
         THEN consumeLots(tr, oo, i + 1, qty, vspId)
    ELSE IF Abs(tr[i].quantity) <= Abs(qty)
         THEN consumeLots(RemoveAt(tr, i),
                          IF tr[i].protect.has
                          THEN spliceTradeOrders(oo, 1, tr[i].id) ELSE oo,
                          i, qty - tr[i].quantity, vspId)
    ELSE [trades |-> [tr EXCEPT ![i].quantity = @ - qty],
          openOrders |-> IF tr[i].protect.has
                         THEN reduceTradeOrders(oo, tr[i].id, qty) ELSE oo,
          qty |-> 0]

(* for(j...) : remove the filled order itself, first match only *)
RECURSIVE spliceFilled(_, _, _)
spliceFilled(oo, j, id) ==
    IF j > Len(oo) THEN oo
    ELSE IF oo[j].id = id THEN RemoveAt(oo, j)
    ELSE spliceFilled(oo, j + 1, id)

(* the action of the protective orders of the new lot *)
protectAction(action) == IF action = "buy" THEN "sell" ELSE "cover"

(* protectOrders, with the two legs not linked to each other *)
protectOrdersUnpaired(newTrade, action, uid) ==
    (IF newTrade.protect.limit # 0
     THEN << OpenOrder(uid \o "A", newTrade.id, protectAction(action),
                       Abs(newTrade.quantity), newTrade.protect.limit, 0,
                       "GTC", "", <<>>, "") >>
     ELSE <<>>)
    \o
    (IF newTrade.protect.stop # 0
     THEN << OpenOrder(uid \o "B", newTrade.id, protectAction(action),
                       Abs(newTrade.quantity), 0, newTrade.protect.stop,
                       "GTC", "", <<>>, "") >>
     ELSE <<>>)

(* the protective orders pushed for a new lot *)
protectOrders(newTrade, action, uid) ==
    (IF newTrade.protect.limit # 0
     THEN << OpenOrder(uid \o "A", newTrade.id, protectAction(action),
                       Abs(newTrade.quantity), newTrade.protect.limit, 0,
                       "GTC",
                       IF newTrade.protect.stop # 0 THEN uid \o "B" ELSE "",
                       <<>>, "") >>
     ELSE <<>>)
    \o
    (IF newTrade.protect.stop # 0
     THEN << OpenOrder(uid \o "B", newTrade.id, protectAction(action),
                       Abs(newTrade.quantity), 0, newTrade.protect.stop,
                       "GTC",
                       IF newTrade.protect.limit # 0 THEN uid \o "A" ELSE "",
                       <<>>, "") >>
     ELSE <<>>)

(* execute(order, price) on account state st; basis is the value toFixed   *)
(* gave.  this.openOrders[order.symbol] exists: placeOrder created it.     *)
execute(st, order, price, basis) ==
    LET symbol == order.symbol
        quantity == signedQuantity(order)
        action == reclassify(st.positions, symbol, order.action)
        opening == action \in {"buy", "short"}
        newTrade0 == Trade(uniqueID(st.nextId), 0, price, price,
                           otoProtect(order.oto))
        tr0 == Get(st.trades, symbol)
        oo0 == st.openOrders[symbol]
        walk == IF opening
                THEN [trades |-> tr0, openOrders |-> oo0, qty |-> -quantity]
                ELSE consumeLots(tr0, oo0, 1, -quantity, order.vspId)
        pushed == opening \/ walk.qty # 0
        newTrade == [newTrade0 EXCEPT
                        !.quantity = IF opening THEN quantity ELSE -walk.qty]
        tr1 == IF pushed THEN Append(walk.trades, newTrade) ELSE walk.trades
        trades1 == IF ~opening /\ walk.qty = 0 /\ tr1 = <<>>
                   THEN Del(st.trades, symbol)
                   ELSE Put(st.trades, symbol, tr1)
        oo1 == spliceFilled(walk.openOrders, 1, order.id)
        synth == pushed /\ newTrade.quantity # 0 /\ newTrade.protect.has
        oo2 == IF synth
               THEN oo1 \o protectOrders(newTrade, action,
                                         uniqueID(st.nextId + 1))
               ELSE oo1
    IN  [positions |-> executePosition(st.positions, order, price, basis),
         trades |-> trades1,
         openOrders |-> IF oo2 = <<>> THEN Del(st.openOrders, symbol)
                        ELSE Put(st.openOrders, symbol, oo2),
         ooKeys |-> IF oo2 = <<>>
                    THEN SelectSeq(st.ooKeys, LAMBDA k : k # symbol)
                    ELSE st.ooKeys,
         balances |-> executeBalances(st.balances, quantity, price),
         nextId |-> st.nextId + (IF synth THEN 2 ELSE 1)]

----------------------------------------------------------------------------
(* The account state the operations work on *)

Account ==
    [positions |-> positions, trades |-> trades, openOrders |-> openOrders,
     ooKeys |-> ooKeys, balances |-> balances, nextId |-> nextId]

(* if(!this.openOrders[symbol]) this.openOrders[symbol]=[] *)
ensureOpenOrders(st, symbol) ==
    IF Has(st.openOrders, symbol) THEN st
    ELSE [st EXCEPT !.openOrders = Put(@, symbol, <<>>),
                    !.ooKeys = Append(@, symbol)]

(* the order object as it is kept in openOrders *)
stored(order, id, oco) ==
    [id |-> id, tradeid |-> order.tradeid, action |-> order.action,
     quantity |-> order.quantity, limit |-> order.limit, stop |-> order.stop,
     marketIfTouched |-> order.marketIfTouched, tif |-> order.tif,
     oco |-> oco, oto |-> order.oto, vspId |-> order.vspId]

(* market orders: if(!order.limit && !order.stop) *)
isMarket(order) == order.limit = 0 /\ order.stop = 0

----------------------------------------------------------------------------
(* STX.Account.Demo.prototype.placeOrder, a single order *)
placeOrder(st, order, price, basis) ==
    LET st1 == ensureOpenOrders(st, order.symbol)
    IN  IF isMarket(order)
        THEN execute(st1, order, price, basis)
        ELSE [st1 EXCEPT
                !.openOrders = Put(@, order.symbol,
                    Append(@[order.symbol],
                           stored(order, uniqueID(st.nextId), order.oco))),
                !.nextId = @ + 1]

(* STX.Account.Demo.prototype.placeOrder, an array of two orders *)
placeOCO(st, order) ==
    LET symbol == order[1].symbol
        st1 == ensureOpenOrders(st, symbol)
        id0 == uniqueID(st.nextId)
        id1 == uniqueID(st.nextId + 1)
    IN  [st1 EXCEPT
            !.openOrders = Put(@, symbol,
                @[symbol] \o << stored(order[1], id0, id1),
                                stored(order[2], id1, id0) >>),
            !.nextId = @ + 2]

----------------------------------------------------------------------------
(* STX.Account.Demo.prototype.cancelOrder *)

IndexOfTrade(tr, id) ==
    IF \E t \in 1..Len(tr) : tr[t].id = id
    THEN CHOOSE t \in 1..Len(tr) :
            tr[t].id = id /\ \A u \in 1..(t - 1) : tr[u].id # id
    ELSE 0

(* cancelProtect, dropping the whole protect object with the first leg *)
cancelProtectAll(protect, openOrder) == NoProtect

(* the protect of the lot after the leg openOrder is cancelled *)
cancelProtect(protect, openOrder) ==
    LET p1 == IF openOrder.stop # 0 THEN [protect EXCEPT !.stop = 0]
              ELSE IF openOrder.limit # 0 THEN [protect EXCEPT !.limit = 0]
              ELSE protect
    IN  IF p1.stop = 0 /\ p1.limit = 0 THEN NoProtect ELSE p1

(* the for(t...) loop: lots of the symbol after the leg is cancelled;      *)
(* threw when the lot has no protect object (TypeError)                    *)
cancelTrades(tr, openOrder) ==
    LET t == IndexOfTrade(tr, openOrder.tradeid)
    IN  IF t = 0 THEN [trades |-> tr, threw |-> FALSE]
        ELSE IF ~tr[t].protect.has THEN [trades |-> tr, threw |-> TRUE]
        ELSE [trades |-> [tr EXCEPT ![t].protect = cancelProtect(@, openOrder)],
              threw |-> FALSE]

(* cancelScan, leaving the oco of the sibling as it was *)
RECURSIVE cancelScanNoSever(_, _, _, _, _)
cancelScanNoSever(oo, tr, hasTrades, i, id) ==
    IF i > Len(oo) THEN [openOrders |-> oo, trades |-> tr, threw |-> FALSE]
    ELSE IF id = oo[i].id
         THEN LET r == IF oo[i].tradeid # "" /\ hasTrades
                       THEN cancelTrades(tr, oo[i])
                       ELSE [trades |-> tr, threw |-> FALSE]
              IN  IF r.threw
                  THEN [openOrders |-> oo, trades |-> r.trades, threw |-> TRUE]
                  ELSE cancelScanNoSever(RemoveAt(oo, i), r.trades, hasTrades,
                                         i, id)
    ELSE cancelScanNoSever(oo, tr, hasTrades, i + 1, id)

(* for(i...) over the open orders of one symbol *)
RECURSIVE cancelScan(_, _, _, _, _)
cancelScan(oo, tr, hasTrades, i, id) ==
    IF i > Len(oo) THEN [openOrders |-> oo, trades |-> tr, threw |-> FALSE]
    ELSE IF id = oo[i].id
         THEN LET r == IF oo[i].tradeid # "" /\ hasTrades
                       THEN cancelTrades(tr, oo[i])
                       ELSE [trades |-> tr, threw |-> FALSE]
              IN  IF r.threw
                  THEN [openOrders |-> oo, trades |-> r.trades, threw |-> TRUE]
                  ELSE cancelScan(RemoveAt(oo, i), r.trades, hasTrades, i, id)
    ELSE IF id = oo[i].oco
         THEN cancelScan([oo EXCEPT ![i].oco = ""], tr, hasTrades, i + 1, id)
    ELSE cancelScan(oo, tr, hasTrades, i + 1, id)

(* for(var symbol in this.openOrders) *)
RECURSIVE cancelSymbols(_, _, _)
cancelSymbols(st, k, id) ==
    IF k > Len(st.ooKeys) THEN [st |-> st, threw |-> FALSE]
    ELSE LET symbol == st.ooKeys[k]
             r == cancelScan(st.openOrders[symbol], Get(st.trades, symbol),
                             Has(st.trades, symbol), 1, id)
             st1 == [st EXCEPT
                        !.openOrders = Put(@, symbol, r.openOrders),
                        !.trades = IF Has(st.trades, symbol)
                                   THEN Put(@, symbol, r.trades) ELSE @]
         IN  IF r.threw THEN [st |-> st1, threw |-> TRUE]
             ELSE cancelSymbols(st1, k + 1, id)

cancelOrder(st, id) == cancelSymbols(st, 1, id)

----------------------------------------------------------------------------
(* STX.Account.Demo.prototype.replaceOrder *)

(* replaceTarget, falling back on the first open order when none matches *)
replaceTargetOrFirst(st, id) ==
    LET hit(k) == \E i \in 1..Len(st.openOrders[st.ooKeys[k]]) :
                      st.openOrders[st.ooKeys[k]][i].id = id
        some(k) == st.openOrders[st.ooKeys[k]] # <<>>
    IN  IF \E k \in 1..Len(st.ooKeys) : hit(k)
        THEN LET k == CHOOSE k \in 1..Len(st.ooKeys) :
                          hit(k) /\ \A j \in 1..(k - 1) : ~hit(j)
                 oo == st.openOrders[st.ooKeys[k]]
                 i == CHOOSE i \in 1..Len(oo) :
                          oo[i].id = id /\ \A j \in 1..(i - 1) : oo[j].id # id
             IN  [found |-> TRUE, symbol |-> st.ooKeys[k], i |-> i]
        ELSE IF \E k \in 1..Len(st.ooKeys) : some(k)
        THEN LET k == CHOOSE k \in 1..Len(st.ooKeys) :
                          some(k) /\ \A j \in 1..(k - 1) : ~some(j)
             IN  [found |-> TRUE, symbol |-> st.ooKeys[k], i |-> 1]
        ELSE [found |-> FALSE, symbol |-> "", i |-> 0]

(* the first open order, in for..in order, whose id is the request's *)
replaceTarget(st, id) ==
    LET hit(k) == \E i \in 1..Len(st.openOrders[st.ooKeys[k]]) :
                      st.openOrders[st.ooKeys[k]][i].id = id
    IN  IF \E k \in 1..Len(st.ooKeys) : hit(k)
        THEN LET k == CHOOSE k \in 1..Len(st.ooKeys) :
                          hit(k) /\ \A j \in 1..(k - 1) : ~hit(j)
                 oo == st.openOrders[st.ooKeys[k]]
                 i == CHOOSE i \in 1..Len(oo) :
                          oo[i].id = id /\ \A j \in 1..(i - 1) : oo[j].id # id
             IN  [found |-> TRUE, symbol |-> st.ooKeys[k], i |-> i]
        ELSE [found |-> FALSE, symbol |-> "", i |-> 0]

(* the fields replaceOrder assigns *)
replaceFields(openOrder, order) ==
    [openOrder EXCEPT !.limit = order.limit, !.stop = order.stop,
                      !.tif = order.tif, !.quantity = order.quantity,
                      !.oto = order.oto]

(* the for(t...) loop: trade.protect follows the replaced leg *)
replaceTrades(tr, openOrder) ==
    LET t == IndexOfTrade(tr, openOrder.tradeid)
    IN  IF t = 0 \/ (openOrder.stop = 0 /\ openOrder.limit = 0)
        THEN [trades |-> tr, threw |-> FALSE]
        ELSE IF ~tr[t].protect.has THEN [trades |-> tr, threw |-> TRUE]
        ELSE IF openOrder.stop # 0
        THEN [trades |-> [tr EXCEPT ![t].protect.stop = openOrder.stop],
              threw |-> FALSE]
        ELSE [trades |-> [tr EXCEPT ![t].protect.limit = openOrder.limit],
              threw |-> FALSE]

(* cb is the number of times the callback is invoked *)
replaceOrder(st, order) ==
    LET f == replaceTarget(st, order.id)
    IN  IF ~f.found THEN [st |-> st, threw |-> FALSE, cb |-> 0]
        ELSE LET symbol == f.symbol
                 openOrder == replaceFields(st.openOrders[symbol][f.i], order)
                 st1 == [st EXCEPT !.openOrders[symbol][f.i] = openOrder]
                 r == IF openOrder.tradeid # "" /\ Has(st.trades, symbol)
                      THEN replaceTrades(st.trades[symbol], openOrder)
                      ELSE [trades |-> Get(st.trades, symbol), threw |-> FALSE]
                 st2 == IF Has(st.trades, symbol)
                        THEN [st1 EXCEPT !.trades[symbol] = r.trades]
                        ELSE st1
             IN  [st |-> st2, threw |-> r.threw,
                  cb |-> IF r.threw THEN 0 ELSE 1]

----------------------------------------------------------------------------
(* STX.Account.Demo.prototype.setProtection and the callback STX.TFC's     *)
(* placeOrder gives it; order is the array of one or two legs              *)

(* the ids setProtection passes to its callback *)
setProtection(order) ==
    [n \in 1..Len(order) |->
        order[n].tradeid \o (IF order[n].limit # 0 THEN "|L" ELSE "|S")]

(* trade.protect={} and the limit and stop of the legs *)
patchProtect(order) ==
    LET lim == {n \in 1..Len(order) : order[n].limit # 0}
        stp == {n \in 1..Len(order) : order[n].stop # 0}
        max(S) == CHOOSE n \in S : \A m \in S : m <= n
    IN  Protect(IF lim = {} THEN 0 ELSE order[max(lim)].limit,
                IF stp = {} THEN 0 ELSE order[max(stp)].stop)

(* for(i...) over the lots of the charted symbol *)
patchTrades(tr, order) ==
    [t \in 1..Len(tr) |->
        IF tr[t].id = order[1].tradeid
        THEN [tr[t] EXCEPT !.protect = patchProtect(order)]
        ELSE tr[t]]

(* for(i...) over the open orders: the orders the lot already has take the *)
(* legs' ids and prices; tradeNum counts them (from 0, as in the code).    *)
(* threw: order[tradeNum] is undefined (TypeError)                         *)
RECURSIVE patchOrders(_, _, _, _, _)
patchOrders(oo, i, tradeNum, order, id) ==
    IF i > Len(oo)
    THEN [openOrders |-> oo, tradeNum |-> tradeNum, threw |-> FALSE]
    ELSE IF oo[i].tradeid # order[1].tradeid
    THEN patchOrders(oo, i + 1, tradeNum, order, id)
    ELSE IF Len(order) = 1 /\ tradeNum # 0
    THEN [openOrders |-> RemoveAt(oo, i), tradeNum |-> tradeNum,
          threw |-> FALSE]
    ELSE IF tradeNum >= Len(order)
    THEN [openOrders |-> [oo EXCEPT ![i].id = "", ![i].oco = "",
                                    ![i].limit = 0, ![i].stop = 0],
          tradeNum |-> tradeNum, threw |-> TRUE]
    ELSE patchOrders(
            [oo EXCEPT ![i].id = id[tradeNum + 1],
                       ![i].oco = IF Len(order) > 1 THEN id[2 - tradeNum]
                                  ELSE id[tradeNum + 1],
                       ![i].limit = order[tradeNum + 1].limit,
                       ![i].stop = order[tradeNum + 1].stop],
            i + 1, tradeNum + 1, order, id)

(* pushLegs, pushing no more than one leg *)
pushLegsOne(order, tradeNum, id) ==
    [n \in 1..(IF Len(order) > tradeNum THEN 1 ELSE 0) |->
        stored(order[tradeNum + n], id[tradeNum + n],
               IF Len(order) > 1 THEN id[2 - (tradeNum + n - 1)]
               ELSE id[tradeNum + n])]

(* for(;tradeNum<order.length;tradeNum++): the legs that are pushed *)
pushLegs(order, tradeNum, id) ==
    [n \in 1..(Len(order) - tradeNum) |->
        stored(order[tradeNum + n], id[tradeNum + n],
               IF Len(order) > 1 THEN id[2 - (tradeNum + n - 1)]
               ELSE id[tradeNum + n])]

(* the callback of the setProtection branch, for the charted symbol *)
patchProtection(st, symbol, order, id) ==
    LET st1 == [st EXCEPT !.trades[symbol] = patchTrades(@, order)]
        st2 == ensureOpenOrders(st1, symbol)
        r == patchOrders(st2.openOrders[symbol], 1, 0, order, id)
    IN  [st |-> [st2 EXCEPT !.openOrders[symbol] =
                    IF r.threw THEN r.openOrders
                    ELSE r.openOrders \o pushLegs(order, r.tradeNum, id)],
         threw |-> r.threw]

----------------------------------------------------------------------------
(* STX.Account.Demo.prototype.closeAllPositions *)

(* spliceLinked with splice(i,1): the order after a removed one is skipped *)
RECURSIVE spliceLinkedSkips(_, _)
spliceLinkedSkips(oo, i) ==
    IF i > Len(oo) THEN oo
    ELSE IF oo[i].tradeid # "" THEN spliceLinkedSkips(RemoveAt(oo, i), i + 1)
    ELSE spliceLinkedSkips(oo, i + 1)

(* for(i...) if(openOrders[i].tradeid) openOrders.splice(i--,1) *)
RECURSIVE spliceLinked(_, _)
spliceLinked(oo, i) ==
    IF i > Len(oo) THEN oo
    ELSE IF oo[i].tradeid # "" THEN spliceLinked(RemoveAt(oo, i), i)
    ELSE spliceLinked(oo, i + 1)

closeAllPositions(st) ==
    [st EXCEPT !.positions = <<>>,
               !.trades = <<>>,
               !.openOrders = [symbol \in DOMAIN @ |->
                                  spliceLinked(@[symbol], 1)]]

----------------------------------------------------------------------------
(* STX.Account.Demo.prototype.closePosition *)

(* closePositionOrders, for the first lot only *)
closePositionOrdersFirst(oo, tr, i) ==
    IF tr = <<>> THEN oo ELSE spliceTradeOrders(oo, 1, tr[1].id)

(* for(i...) over the lots: drop the open orders of each lot *)
RECURSIVE closePositionOrders(_, _, _)
closePositionOrders(oo, tr, i) ==
    IF i > Len(tr) THEN oo
    ELSE closePositionOrders(spliceTradeOrders(oo, 1, tr[i].id), tr, i + 1)

(* threw: this.trades[position.symbol] is undefined (TypeError) *)
closePosition(st, symbol) ==
    IF ~Has(st.trades, symbol) THEN [st |-> st, threw |-> TRUE]
    ELSE [st |-> [st EXCEPT
                    !.openOrders =
                        IF Has(@, symbol)
                        THEN Put(@, symbol,
                                 closePositionOrders(@[symbol],
                                                     st.trades[symbol], 1))
                        ELSE @,
                    !.trades = Del(@, symbol),
                    !.positions = Del(@, symbol)],
          threw |-> FALSE]

----------------------------------------------------------------------------
(* STX.Account.Demo.prototype.closeTrade; trade is a lot of trades[symbol] *)

(* closeTradeBasisChoices, leaving the basis as it was *)
closeTradeBasisKept(pos, symbol, trade) ==
    IF Has(pos, symbol) THEN {pos[symbol].basis} ELSE {0}

closeTradeBasisChoices(pos, symbol, trade) ==
    IF Has(pos, symbol) /\ pos[symbol].quantity # trade.quantity
    THEN toFixed2(pos[symbol].quantity * pos[symbol].basis
                      - trade.quantity * trade.basis,
                  pos[symbol].quantity - trade.quantity)
    ELSE {0}

closeTradePosition(pos, symbol, trade, basis) ==
    IF pos[symbol].quantity = trade.quantity THEN Del(pos, symbol)
    ELSE Put(pos, symbol,
             [pos[symbol] EXCEPT !.basis = basis,
                                 !.quantity = @ - trade.quantity])

(* closeTrade, settling the lot's proceeds into the balances *)
closeTradeSettles(st, symbol, trade, basis) ==
    LET t == IndexOfTrade(st.trades[symbol], trade.id)
        st1 == IF t = 0 THEN st
               ELSE [st EXCEPT !.trades[symbol] = RemoveAt(@, t)]
    IN  IF ~Has(st.positions, symbol) THEN [st |-> st1, threw |-> TRUE]
        ELSE [st |-> [st1 EXCEPT
                        !.positions =
                            closeTradePosition(@, symbol, trade, basis),
                        !.balances =
                            executeBalances(@, -trade.quantity, trade.price),
                        !.openOrders =
                            IF Has(@, symbol)
                            THEN Put(@, symbol,
                                     spliceTradeOrders(@[symbol], 1, trade.id))
                            ELSE @],
              threw |-> FALSE]

(* threw: this.positions[trade.symbol] is undefined (TypeError), after the *)
(* lot has been spliced out                                                *)
closeTrade(st, symbol, trade, basis) ==
    LET t == IndexOfTrade(st.trades[symbol], trade.id)
        st1 == IF t = 0 THEN st
               ELSE [st EXCEPT !.trades[symbol] = RemoveAt(@, t)]
    IN  IF ~Has(st.positions, symbol) THEN [st |-> st1, threw |-> TRUE]
        ELSE [st |-> [st1 EXCEPT
                        !.positions =
                            closeTradePosition(@, symbol, trade, basis),
                        !.openOrders =
                            IF Has(@, symbol)
                            THEN Put(@, symbol,
                                     spliceTradeOrders(@[symbol], 1, trade.id))
                            ELSE @],
              threw |-> FALSE]

----------------------------------------------------------------------------
(* STX.TFC: what the controller lets the user submit *)

(* configureMenu: hasShort / hasLong of the charted symbol *)
hasShort(symbol) ==
    \/ Has(positions, symbol) /\ positions[symbol].quantity < 0
    \/ \E t \in 1..Len(Get(trades, symbol)) : trades[symbol][t].quantity < 0

hasLong(symbol) ==
    \/ Has(positions, symbol) /\ positions[symbol].quantity > 0
    \/ \E t \in 1..Len(Get(trades, symbol)) : trades[symbol][t].quantity >= 0

(* configureMenu: the order forms shown, Demo config (no hedging) *)
formActions(symbol) ==
    IF ~hasLong(symbol) /\ ~hasShort(symbol) THEN {"buy", "short"}
    ELSE IF hasShort(symbol) /\ ~hasLong(symbol) THEN {"short", "cover"}
    ELSE IF hasLong(symbol) /\ ~hasShort(symbol) THEN {"buy", "sell"}
    ELSE {}

(* the market buttons, and an order form whose TIF is flipped to MKT *)
marketActions(symbol) == {"buy", "sell"} \cup formActions(symbol)

(* createOrderFromGUI: an order object *)
newOrder(symbol, action, quantity, limit, stop, tif, oto, vspId) ==
    [symbol |-> symbol, id |-> "", tradeid |-> "", action |-> action,
     quantity |-> quantity, limit |-> limit, stop |-> stop,
     marketIfTouched |-> 0, tif |-> tif, oco |-> "", oto |-> oto,
     vspId |-> vspId]

NoOrder == newOrder("", "", 0, 0, 0, "", <<>>, "")

(* createOrderFromGUI: the oto legs of a market order, profit leg first *)
marketOto(action, quantity, profit, loss) ==
    LET legAction == IF action \in {"buy", "cover"} THEN "sell" ELSE "buy"
        up == OtoLimit
        down == OtoStop
    IN  (IF profit
         THEN << Leg("", legAction, quantity,
                     IF legAction = "sell" THEN up ELSE down, 0,
                     "GTC", "true") >>
         ELSE <<>>)
        \o
        (IF loss
         THEN << Leg("", legAction, quantity, 0,
                     IF legAction = "sell" THEN down ELSE up,
                     "GTC", "true") >>
         ELSE <<>>)

(* createOCOFromGUI: the two legs of an OCO that is not tied to a lot *)
ocoFromGUI(symbol, activeTrade, quantity) ==
    LET o(action, limit, stop) ==
            [newOrder(symbol, action, quantity, limit, stop, "GTC", <<>>, "")
                EXCEPT !.oco = "true"]
    IN  CASE activeTrade = "strangle" ->
                << o("sell", OtoLimit, 0), o("buy", OtoStop, 0) >>
          [] activeTrade = "straddle" ->
                << o("buy", 0, OtoLimit), o("sell", 0, OtoStop) >>
          [] activeTrade = "bracket_cover" ->
                << o("cover", 0, OtoLimit), o("cover", OtoStop, 0) >>
          [] activeTrade = "bracket_sell" ->
                << o("sell", OtoLimit, 0), o("sell", 0, OtoStop) >>

(* configureMenu / enableBracket: the OCO forms shown *)
ocoTrades(symbol) ==
    IF ~hasLong(symbol) /\ ~hasShort(symbol) THEN {"straddle", "strangle"}
    ELSE IF ~Has(positions, symbol) THEN {}
    ELSE IF positions[symbol].quantity > 0 THEN {"bracket_sell"}
    ELSE {"bracket_cover"}

----------------------------------------------------------------------------
(* STX.TFC: the state of the confirm -> place protocol *)

(* the requests the controller handles between two refreshes of its data *)
MaxRequests == 2

(* the price a replace is dragged to, next to the old one *)
Tick == 40

(* tradability.maxDecimalPlaces of the charted symbol *)
DecimalPlaces == {0, 2}

Dialogs ==
    {"tfcConfirmOrder", "tfcConfirmOCO", "tfcConfirmReplace",
     "tfcConfirmCloseAll"}

(* gui is the user's operation, type is order.type, order holds the order  *)
(* (for a replace: the "new" values, old holding the "old" ones) and legs  *)
(* the orders of an array                                                  *)
Request(gui, type, order, old, legs, places) ==
    [gui |-> gui, type |-> type, order |-> order, old |-> old,
     legs |-> legs, places |-> places]

NoRequest == Request("", "", NoOrder, NoOrder, <<>>, 2)

(* what the current request has gone through: the calls of                 *)
(* Account.confirmOrder, whether a confirmation carried errors, the        *)
(* dialogs displayed, the Account mutations called, the calls of           *)
(* STX.TFC.prototype.placeOrder and the runs of its finishCloseTrade       *)
NoTrail ==
    [gui |-> "", request |-> NoRequest, confirmOrder |-> 0,
     errors |-> FALSE, dialogs |-> 0, calls |-> <<>>,
     placed |-> 0, finished |-> 0]

NoCall == [call |-> "", request |-> NoRequest]

(* new STX.TFC(config) *)
TFC(skipConfirms) ==
    [skipConfirms |-> skipConfirms, confirming |-> NoRequest,
     dialog |-> "", submitHidden |-> FALSE,
     submit |-> [d \in Dialogs |-> NoRequest], pending |-> NoCall,
     cancelled |-> {}, trail |-> NoTrail]

----------------------------------------------------------------------------
(* The steps *)

(* what a Demo operation hands to its callback: cb() passes no result *)
NoResult == [defined |-> FALSE, id |-> <<>>]

Last(op, symbol, id, order, price, cb, threw) ==
    [op |-> op, symbol |-> symbol, id |-> id, order |-> order,
     price |-> price, cb |-> cb, threw |-> threw, result |-> NoResult,
     legs |-> <<>>, status |-> 0, payload |-> NoBalances, call |-> "",
     err |-> FALSE]

Snapshot ==
    [positions |-> positions, trades |-> trades, openOrders |-> openOrders,
     balances |-> balances, cancelled |-> tfc.cancelled]

Commit(st) ==
    /\ positions' = st.positions
    /\ trades' = st.trades
    /\ openOrders' = st.openOrders
    /\ ooKeys' = st.ooKeys
    /\ balances' = st.balances
    /\ nextId' = st.nextId
    /\ pre' = Snapshot
    /\ ops' = ops + 1
    /\ UNCHANGED <<chartSymbol, symbolArg, reported, tfc, updates>>

Init ==
    /\ positions = DemoPositions
    /\ trades = DemoTrades
    /\ openOrders = DemoOpenOrders
    /\ ooKeys = DemoOoKeys
    /\ balances = NoBalances
    /\ nextId = 1
    /\ chartSymbol \in Symbols
    /\ ops = 0
    /\ last = Last("new", "", "", NoOrder, 0, 0, FALSE)
    /\ symbolArg = NoSymbol
    /\ reported = NotReported
    /\ tfc = TFC(FALSE)
    /\ pre = Snapshot
    /\ updates = <<>>

(* a market order: the market buttons or a form flipped to MKT *)
MarketOrder ==
    /\ ops < MaxOps
    /\ \E action \in marketActions(chartSymbol), quantity \in Qtys,
          price \in Prices, profit \in BOOLEAN, loss \in BOOLEAN :
        LET order == newOrder(chartSymbol, action, quantity, 0, 0, "DAY",
                              marketOto(action, quantity, profit, loss), "")
        IN  /\ profit \/ ~loss
            /\ \E basis \in executeBasisChoices(positions, order, price) :
                 Commit(placeOrder(Account, order, price, basis))
            /\ last' = Last("placeOrder", chartSymbol, "", order, price, 1,
                            FALSE)

(* confirmVspTrade: reduce one lot of the charted symbol at the market *)
VspOrder ==
    /\ ops < MaxOps
    /\ Has(trades, chartSymbol)
    /\ \E t \in 1..Len(trades[chartSymbol]), price \in Prices :
        \E quantity \in {q \in Qtys \cup {Abs(trades[chartSymbol][t].quantity)} :
                            q <= Abs(trades[chartSymbol][t].quantity)} :
          LET trade == trades[chartSymbol][t]
              order == newOrder(chartSymbol,
                                IF trade.quantity > 0 THEN "sell" ELSE "cover",
                                quantity, 0, 0, "DAY", <<>>, trade.id)
          IN  /\ \E basis \in executeBasisChoices(positions, order, price) :
                   Commit(placeOrder(Account, order, price, basis))
              /\ last' = Last("placeOrder", chartSymbol, "", order, price, 1,
                              FALSE)

(* a limit or stop order from an order form: it rests *)
RestingOrder ==
    /\ ops < MaxOps
    /\ \E action \in formActions(chartSymbol), isLimit \in BOOLEAN :
        LET order == newOrder(chartSymbol, action, 100,
                              IF isLimit THEN RestPrice ELSE 0,
                              IF isLimit THEN 0 ELSE RestPrice,
                              "GTC", <<>>, "")
        IN  /\ Commit(placeOrder(Account, order, 0, 0))
            /\ last' = Last("placeOrder", chartSymbol, uniqueID(nextId),
                            order, 0, 1, FALSE)

(* account.placeOrder with an order that carries only a marketIfTouched  *)
(* price (the order object of the Account interface; no form builds it)  *)
MITOrder ==
    /\ ops < MaxOps
    /\ \E action \in formActions(chartSymbol), price \in Prices :
        LET order == [newOrder(chartSymbol, action, 100, 0, 0, "GTC", <<>>, "")
                        EXCEPT !.marketIfTouched = RestPrice]
        IN  /\ \E basis \in executeBasisChoices(positions, order, price) :
                 Commit(placeOrder(Account, order, price, basis))
            /\ last' = Last("placeOrder", chartSymbol, "", order, price, 1,
                            FALSE)

(* a straddle, a strangle or a bracket of the position: an array of two *)
OCOOrder ==
    /\ ops < MaxOps
    /\ \E activeTrade \in ocoTrades(chartSymbol) :
        LET order == ocoFromGUI(chartSymbol, activeTrade, 100)
        IN  /\ Commit(placeOCO(Account, order))
            /\ last' = Last("placeOCO", chartSymbol, uniqueID(nextId),
                            order[1], 0, 1, FALSE)

(* cancelOpenOrder: cancel an open order of the charted symbol *)
CancelOrder ==
    /\ ops < MaxOps
    /\ Has(openOrders, chartSymbol)
    /\ \E i \in 1..Len(openOrders[chartSymbol]) :
        LET id == openOrders[chartSymbol][i].id
            r == cancelOrder(Account, id)
        IN  /\ Commit(r.st)
            /\ last' = Last("cancelOrder", chartSymbol, id, NoOrder, 0,
                            IF r.threw THEN 0 ELSE 1, r.threw)

(* createReplaceFromGUI: modify an open order of the charted symbol; the  *)
(* request's fields are the "new" values of the replace tuples, and a     *)
(* request through the Account interface may carry a new marketIfTouched  *)
ReplaceOrder ==
    /\ ops < MaxOps
    /\ Has(openOrders, chartSymbol)
    /\ \E i \in 1..Len(openOrders[chartSymbol]),
          kind \in {"limit", "stop", "marketIfTouched"} :
        LET old == openOrders[chartSymbol][i]
            quantity == IF old.quantity = 100 THEN 300 ELSE 100
            order == [newOrder(chartSymbol, old.action, quantity,
                               IF kind = "limit" THEN RestPrice ELSE 0,
                               IF kind = "stop" THEN RestPrice ELSE 0,
                               old.tif, <<>>, "")
                        EXCEPT !.id = old.id, !.oco = old.oco,
                               !.marketIfTouched =
                                   IF kind = "marketIfTouched" THEN RestPrice
                                   ELSE 0]
            r == replaceOrder(Account, order)
        IN  /\ Commit(r.st)
            /\ last' = Last("replaceOrder", chartSymbol, old.id, order, 0,
                            r.cb, r.threw)

(* enableBracket on a lot of the charted symbol, createOCOFromGUI with the *)
(* lot's id as tradeid, one leg or both, then the setProtection branch of  *)
(* STX.TFC's placeOrder                                                    *)
SetProtection ==
    /\ ops < MaxOps
    /\ Has(trades, chartSymbol)
    /\ \E t \in 1..Len(trades[chartSymbol]),
          shown \in {<<1, 2>>, <<1>>, <<2>>} :
        LET trade == trades[chartSymbol][t]
            both == ocoFromGUI(chartSymbol,
                               IF trade.quantity > 0 THEN "bracket_sell"
                               ELSE "bracket_cover",
                               Abs(trade.quantity))
            order == [n \in 1..Len(shown) |->
                        [both[shown[n]] EXCEPT !.tradeid = trade.id]]
            id == setProtection(order)
            r == patchProtection(Account, chartSymbol, order, id)
        IN  /\ Commit(r.st)
            /\ last' = [Last("setProtection", chartSymbol, trade.id,
                             NoOrder, 0, 1, r.threw)
                           EXCEPT !.result = [defined |-> TRUE, id |-> id],
                                  !.legs = order]

(* account.cancelOrder for an id no open order carries: the id of an oto *)
(* child, which is not an open order itself                             *)
CancelUnknown ==
    /\ ops < MaxOps
    /\ LET r == cancelOrder(Account, UnknownId)
       IN  /\ Commit(r.st)
           /\ last' = Last("cancelOrder", chartSymbol, UnknownId, NoOrder, 0,
                           IF r.threw THEN 0 ELSE 1, r.threw)

(* account.replaceOrder for an id no open order carries *)
ReplaceUnknown ==
    /\ ops < MaxOps
    /\ LET order == [newOrder(chartSymbol, "sell", 100, RestPrice, 0, "GTC",
                              <<>>, "")
                        EXCEPT !.id = UnknownId]
           r == replaceOrder(Account, order)
       IN  /\ Commit(r.st)
           /\ last' = Last("replaceOrder", chartSymbol, UnknownId, order, 0,
                           r.cb, r.threw)

(* confirmCloseAllPositions *)
CloseAllPositions ==
    /\ ops < MaxOps
    /\ Commit(closeAllPositions(Account))
    /\ last' = Last("closeAllPositions", "", "", NoOrder, 0, 1, FALSE)

(* confirmClosePosition, then TFC placeOrder of type "close" without id,   *)
(* for the position of the charted symbol                                  *)
ClosePosition ==
    /\ ops < MaxOps
    /\ \E symbol \in DOMAIN positions \cap {chartSymbol} :
        LET r == closePosition(Account, symbol)
        IN  /\ Commit(r.st)
            /\ last' = Last("closePosition", symbol, "", NoOrder, 0,
                            IF r.threw THEN 0 ELSE 1, r.threw)

(* confirmCloseTrade, then TFC placeOrder of type "close" with the lot id, *)
(* for a lot of the charted symbol                                         *)
CloseTrade ==
    /\ ops < MaxOps
    /\ \E symbol \in DOMAIN trades \cap {chartSymbol} :
        \E t \in 1..Len(trades[symbol]) :
          LET id == trades[symbol][t].id
              trade == trades[symbol][IndexOfTrade(trades[symbol], id)]
          IN  \E basis \in closeTradeBasisChoices(positions, symbol, trade) :
                LET r == closeTrade(Account, symbol, trade, basis)
                IN  /\ Commit(r.st)
                    /\ last' = Last("closeTrade", symbol, id, NoOrder, 0,
                                    IF r.threw THEN 0 ELSE 1, r.threw)

Next ==
    \/ MarketOrder
    \/ VspOrder
    \/ RestingOrder
    \/ MITOrder
    \/ OCOOrder
    \/ CancelOrder
    \/ ReplaceOrder
    \/ SetProtection
    \/ CancelUnknown
    \/ ReplaceUnknown
    \/ CloseAllPositions
    \/ ClosePosition
    \/ CloseTrade

Spec == Init /\ [][Next]_vars

----------------------------------------------------------------------------
(* The balances: fetchBalances, whenever the controller refreshes its data, *)
(* between the fills of the charted symbol                                  *)

FetchBalances ==
    /\ ops < MaxOps
    /\ \E status \in {200, 500}, payload \in Payloads :
        LET r == fetchBalances(balances, status, payload)
        IN  /\ status # 200 => payload = CHOOSE p \in Payloads : TRUE
            /\ Commit([Account EXCEPT !.balances = r.balances])
            /\ last' = [Last("fetchBalances", "", "", NoOrder, 0, r.cb, FALSE)
                           EXCEPT !.status = status, !.payload = payload]

NextBalances ==
    \/ FetchBalances
    \/ MarketOrder
    \/ VspOrder

SpecBalances == Init /\ [][NextBalances]_vars

----------------------------------------------------------------------------
(* STX.TFC: confirmations, Account calls and the patches of the callbacks. *)
(* The Account is any implementation of the STX.Account interface: what    *)
(* its confirmOrder and its mutations hand to their callbacks is the       *)
(* Account's choice, and account.openOrders and account.trades, which the  *)
(* controller draws from, change here by the patches of the callbacks.     *)

(* an Account mutation is called with the request and a callback *)
accountCall(t, name, request) ==
    [t EXCEPT !.pending = [call |-> name, request |-> request],
              !.trail.calls = Append(@, name)]

(* finishCloseTrade: STX.DialogManager.dismissDialog(), the alert of err,  *)
(* updateData and draw                                                     *)
finishCloseTrade(t) == [t EXCEPT !.dialog = "", !.trail.finished = @ + 1]

(* STX.TFC.prototype.placeOrder: the Account operation an order goes to *)
tfcPlaceOrder(t, request) ==
    LET order == request.order
        lots == Get(trades, order.symbol)
        t1 == [t EXCEPT !.trail.placed = @ + 1]
    IN  IF request.type = "close"
        THEN IF Has(trades, order.symbol) /\ order.id # ""
             THEN IF \E i \in 1..Len(lots) : lots[i].id = order.id
                  THEN accountCall(t1, "closeTrade", request)
                  ELSE t1
             ELSE IF /\ Has(positions, order.symbol)
                     /\ Abs(positions[order.symbol].quantity)
                            = Abs(order.quantity)
                  THEN accountCall(t1, "closePosition", request)
                  ELSE finishCloseTrade(t1)
        ELSE IF request.type = "replace"
             THEN accountCall(t1, "replaceOrder", request)
        ELSE IF request.legs # <<>> /\ request.legs[1].tradeid # ""
             THEN accountCall(t1, "setProtection", request)
        ELSE accountCall(t1, "placeOrder", request)

(* STX.TFC.prototype.confirmOrder and the confirming half of               *)
(* cancelOpenOrder: this.account.confirmOrder(this, order, function...)    *)
confirmOrder(t, request) ==
    [t EXCEPT !.confirming = request, !.trail.confirmOrder = @ + 1]

(* confirmation, offering the submit button whatever the confirmation says *)
confirmationOffersSubmit(t, errors) ==
    [t EXCEPT !.confirming = NoRequest,
              !.dialog = "tfcConfirmOrder",
              !.trail.dialogs = @ + 1,
              !.trail.errors = errors,
              !.submitHidden = FALSE,
              !.submit["tfcConfirmOrder"] = t.confirming]

(* function(confirmation){...}: the dialog is displayed; with errors the   *)
(* submit button is hidden and gets no handler, else it is shown and gets  *)
(* the closure of the order                                                *)
confirmation(t, errors) ==
    LET shown == [t EXCEPT !.confirming = NoRequest,
                           !.dialog = "tfcConfirmOrder",
                           !.trail.dialogs = @ + 1,
                           !.trail.errors = errors]
    IN  IF errors THEN [shown EXCEPT !.submitHidden = TRUE]
        ELSE [shown EXCEPT !.submitHidden = FALSE,
                           !.submit["tfcConfirmOrder"] = t.confirming]

(* STX.TFC.prototype.formatPrice with tradability.maxDecimalPlaces: *)
(* price.toFixed(places), prices in cents                           *)
formatPrice(price, places) ==
    IF places = 2 THEN price ELSE ((price + 50) \div 100) * 100

(* confirmReplace: priceOld and priceNew *)
priceText(order, places) ==
    IF order.limit # 0 THEN <<formatPrice(order.limit, places), "LMT">>
    ELSE IF order.stop # 0 THEN <<formatPrice(order.stop, places), "STP">>
    ELSE IF order.marketIfTouched # 0
         THEN <<formatPrice(order.marketIfTouched, places), "MIT">>
    ELSE <<0, "MKT">>

(* STX.TFC.prototype.printablePrice of an oto leg *)
printablePrice(leg, places) ==
    IF leg.limit = 0 /\ leg.stop = 0 THEN <<0, 0, "MKT">>
    ELSE IF leg.limit # 0 /\ leg.stop # 0
         THEN <<formatPrice(leg.limit, places),
                formatPrice(leg.stop, places), "LMT STP">>
    ELSE IF leg.limit # 0 THEN <<formatPrice(leg.limit, places), 0, "">>
    ELSE <<formatPrice(leg.stop, places), 0, "STP">>

(* STX.TFC.prototype.printableOTO *)
printableOTO(oto, places) ==
    [i \in 1..Len(oto) |-> <<oto[i].action, printablePrice(oto[i], places)>>]

(* confirmReplace: foundAChange *)
foundAChange(request) ==
    \/ request.old.quantity # request.order.quantity
    \/ priceText(request.old, request.places)
           # priceText(request.order, request.places)
    \/ request.old.tif # request.order.tif
    \/ printableOTO(request.old.oto, request.places)
           # printableOTO(request.order.oto, request.places)

(* STX.TFC.prototype.confirmReplace *)
confirmReplace(t, request) ==
    IF ~foundAChange(request) THEN t
    ELSE [t EXCEPT !.submit["tfcConfirmReplace"] = request,
                   !.dialog = "tfcConfirmReplace",
                   !.trail.dialogs = @ + 1]

(* STX.TFC.prototype.confirmOCO *)
confirmOCO(t, request) ==
    [t EXCEPT !.submit["tfcConfirmOCO"] = request,
              !.dialog = "tfcConfirmOCO",
              !.trail.dialogs = @ + 1]

(* an open order of the charted symbol as an order object *)
asOrder(symbol, openOrder) ==
    [symbol |-> symbol, id |-> openOrder.id, tradeid |-> openOrder.tradeid,
     action |-> openOrder.action, quantity |-> openOrder.quantity,
     limit |-> openOrder.limit, stop |-> openOrder.stop,
     marketIfTouched |-> openOrder.marketIfTouched, tif |-> openOrder.tif,
     oco |-> openOrder.oco, oto |-> openOrder.oto,
     vspId |-> openOrder.vspId]

(* createReplaceFromGUI: the "old" values are those of modifyingOrder m,   *)
(* of its prices the first that is set; the "new" price is that of the     *)
(* drag line, a limit or a stop; no oto line is displayed                  *)
createReplaceFromGUI(symbol, m, centerPrice, isLimit, quantity, places) ==
    LET old == [asOrder(symbol, m) EXCEPT
                   !.stop = IF m.limit # 0 THEN 0 ELSE @,
                   !.marketIfTouched =
                       IF m.limit # 0 \/ m.stop # 0 THEN 0 ELSE @]
        new == [asOrder(symbol, m) EXCEPT
                   !.limit = IF isLimit THEN centerPrice ELSE 0,
                   !.stop = IF isLimit THEN 0 ELSE centerPrice,
                   !.marketIfTouched = 0,
                   !.quantity = quantity,
                   !.oto = <<>>]
    IN  Request("replace", "replace", new, old, <<>>, places)

(* the replaces of an open order: the form as it opens on the order, the   *)
(* line dragged by a tick, or another quantity                             *)
replaceRequests(symbol, m) ==
    LET price == IF m.limit # 0 THEN m.limit
                 ELSE IF m.stop # 0 THEN m.stop ELSE m.marketIfTouched
        isLimit == m.limit # 0 \/ m.stop = 0
    IN  {createReplaceFromGUI(symbol, m, price + d, isLimit, q, places) :
            d \in {0, Tick},
            q \in {m.quantity, IF m.quantity = 100 THEN 300 ELSE 100},
            places \in DecimalPlaces}

(* createOrderFromGUI / createOCOFromGUI: the orders of the forms shown *)
formRequests(symbol) ==
    {Request("order", "order",
             newOrder(symbol, action, 100, RestPrice, 0, "GTC", <<>>, ""),
             NoOrder, <<>>, 2) : action \in formActions(symbol)}
    \cup
    {Request(IF activeTrade \in {"bracket_sell", "bracket_cover"}
             THEN "bracket" ELSE "OCO", "",
             NoOrder, NoOrder, ocoFromGUI(symbol, activeTrade, 100), 2) :
        activeTrade \in ocoTrades(symbol)}
    \cup
    {Request("bracket", "", NoOrder, NoOrder,
             [n \in 1..Len(shown) |->
                [ocoFromGUI(symbol,
                            IF trade.quantity > 0 THEN "bracket_sell"
                            ELSE "bracket_cover",
                            Abs(trade.quantity))[shown[n]]
                    EXCEPT !.tradeid = trade.id]], 2) :
        trade \in {Get(trades, symbol)[i] : i \in 1..Len(Get(trades, symbol))},
        shown \in {<<1, 2>>, <<1>>}}
    \cup
    UNION {replaceRequests(symbol, Get(openOrders, symbol)[i]) :
              i \in 1..Len(Get(openOrders, symbol))}

(* the ids an Account gives the orders it accepted *)
BrokerIds == <<"B1", "B2">>

(* what the callback of a mutation may receive as its second argument *)
Results(pending) ==
    IF pending.call \in {"placeOrder", "setProtection"}
    THEN {NoResult,
          [defined |-> TRUE,
           id |-> SubSeq(BrokerIds, 1,
                         IF Len(pending.request.legs) = 2 THEN 2 ELSE 1)]}
    ELSE IF pending.call = "replaceOrder"
         THEN {NoResult, [defined |-> TRUE, id |-> SubSeq(BrokerIds, 1, 1)]}
    ELSE {NoResult}

(* the callback of the placeOrder branch: order.id=obj.id and              *)
(* openOrders.push(order); an array is pushed as the one object it is,     *)
(* whose id compares as the ids joined by a comma                          *)
patchPlace(st, symbol, request, id) ==
    LET st1 == ensureOpenOrders(st, symbol)
        pushed == IF request.legs = <<>>
                  THEN stored(request.order, id[1], request.order.oco)
                  ELSE OpenOrder(IF Len(id) = 2 THEN id[1] \o "," \o id[2]
                                 ELSE id[1],
                                 "", "", 0, 0, 0, "", "", <<>>, "")
    IN  [st1 EXCEPT !.openOrders[symbol] = Append(@, pushed)]

(* the callback of the replace branch *)
patchReplace(st, symbol, order, id) ==
    LET oo == st.openOrders[symbol]
    IN  [st EXCEPT !.openOrders[symbol] =
            [i \in 1..Len(oo) |->
                IF oo[i].id = order.id
                THEN [oo[i] EXCEPT
                         !.id = id[1],
                         !.limit = order.limit,
                         !.stop = order.stop,
                         !.marketIfTouched = order.marketIfTouched,
                         !.quantity = IF order.quantity # 0
                                      THEN order.quantity ELSE @]
                ELSE oo[i]]]

(* the callbacks of the mutations: function(err, obj){...} of              *)
(* STX.TFC.prototype.placeOrder, finishCloseTrade, processCancel and the   *)
(* callback of closeAllPositions.  err is only shown (STX.alert)           *)
reconcile(st, t, symbol, result) ==
    LET call == t.pending.call
        request == t.pending.request
        done == [t EXCEPT !.pending = NoCall, !.dialog = ""]
    IN  IF call = "placeOrder"
        THEN [st |-> IF result.defined
                     THEN patchPlace(st, symbol, request, result.id) ELSE st,
              t |-> done]
        ELSE IF call = "replaceOrder"
        THEN [st |-> IF result.defined /\ Has(st.openOrders, symbol)
                     THEN patchReplace(st, symbol, request.order, result.id)
                     ELSE st,
              t |-> done]
        ELSE IF call = "setProtection"
        THEN [st |-> IF result.defined /\ Has(st.trades, symbol)
                     THEN patchProtection(st, symbol, request.legs,
                                          result.id).st
                     ELSE st,
              t |-> done]
        ELSE IF call = "cancelOrder"
        THEN [st |-> st,
              t |-> [done EXCEPT !.cancelled = @ \cup {request.order.id}]]
        ELSE IF call \in {"closeTrade", "closePosition"}
        THEN [st |-> st, t |-> finishCloseTrade(done)]
        ELSE [st |-> st, t |-> done]

(* nothing is being confirmed, displayed or awaited *)
Idle ==
    /\ tfc.confirming = NoRequest
    /\ tfc.dialog = ""
    /\ tfc.pending = NoCall

Begin(request) ==
    [tfc EXCEPT !.trail = [NoTrail EXCEPT !.gui = request.gui,
                                          !.request = request]]

Reconcile(st, t, n) ==
    /\ positions' = st.positions
    /\ trades' = st.trades
    /\ openOrders' = st.openOrders
    /\ ooKeys' = st.ooKeys
    /\ balances' = st.balances
    /\ nextId' = st.nextId
    /\ pre' = Snapshot
    /\ ops' = ops + n
    /\ tfc' = t
    /\ UNCHANGED <<chartSymbol, symbolArg, reported, updates>>

UserAction(request) ==
    Last("userAction", chartSymbol, request.order.id, request.order, 0, 0,
         FALSE)

(* userAction -> confirmOrPlaceOrder(type, action) *)
ConfirmOrPlaceOrder ==
    /\ Idle
    /\ ops < MaxRequests
    /\ \E request \in formRequests(chartSymbol) :
        LET t0 == Begin(request)
            t1 == IF tfc.skipConfirms THEN tfcPlaceOrder(t0, request)
                  ELSE IF request.gui = "order" THEN confirmOrder(t0, request)
                  ELSE IF request.gui = "replace"
                       THEN confirmReplace(t0, request)
                  ELSE confirmOCO(t0, request)
        IN  /\ Reconcile(Account, t1, 1)
            /\ last' = UserAction(request)

(* STX.TFC.prototype.cancelOpenOrder on an open order of the chart *)
CancelOpenOrder ==
    /\ Idle
    /\ ops < MaxRequests
    /\ Has(openOrders, chartSymbol)
    /\ \E i \in 1..Len(openOrders[chartSymbol]) :
        LET request == Request("cancel", "",
                               asOrder(chartSymbol, openOrders[chartSymbol][i]),
                               NoOrder, <<>>, 2)
            t0 == Begin(request)
            t1 == IF tfc.skipConfirms
                  THEN accountCall(t0, "cancelOrder", request)
                  ELSE confirmOrder(t0, request)
        IN  /\ Reconcile(Account, t1, 1)
            /\ last' = UserAction(request)

(* confirmCloseTrade(trade) / confirmClosePosition(position) *)
ConfirmClose ==
    /\ Idle
    /\ ops < MaxRequests
    /\ \E request \in
          {Request("closeTrade", "close",
                   [newOrder(chartSymbol, "close",
                             Abs(Get(trades, chartSymbol)[i].quantity),
                             0, 0, "DAY", <<>>, "")
                       EXCEPT !.id = Get(trades, chartSymbol)[i].id],
                   NoOrder, <<>>, 2) :
              i \in 1..Len(Get(trades, chartSymbol))}
          \cup
          {Request("closePosition", "close",
                   newOrder(symbol, "close", Abs(positions[symbol].quantity),
                            0, 0, "DAY", <<>>, ""),
                   NoOrder, <<>>, 2) :
              symbol \in DOMAIN positions \cap {chartSymbol}} :
        LET t0 == Begin(request)
            t1 == IF tfc.skipConfirms THEN tfcPlaceOrder(t0, request)
                  ELSE confirmOrder(t0, request)
        IN  /\ Reconcile(Account, t1, 1)
            /\ last' = UserAction(request)

(* confirmVspTrade(trade): the order has no quantity yet, old.quantity is  *)
(* its originalQuantity                                                    *)
ConfirmVspTrade ==
    /\ Idle
    /\ ops < MaxRequests
    /\ \E i \in 1..Len(Get(trades, chartSymbol)) :
        LET trade == trades[chartSymbol][i]
            request == Request("vsp", "order",
                               newOrder(chartSymbol,
                                        IF trade.quantity > 0 THEN "sell"
                                        ELSE "cover",
                                        0, 0, 0, "DAY", <<>>, trade.id),
                               [NoOrder EXCEPT
                                   !.quantity = Abs(trade.quantity)],
                               <<>>, 2)
        IN  /\ Reconcile(Account, confirmOrder(Begin(request), request), 1)
            /\ last' = UserAction(request)

(* confirmCloseAllPositions: the dialog and its submit handler *)
ConfirmCloseAllPositions ==
    /\ Idle
    /\ ops < MaxRequests
    /\ LET request == Request("closeAll", "", NoOrder, NoOrder, <<>>, 2)
           t1 == [Begin(request) EXCEPT
                     !.submit["tfcConfirmCloseAll"] = request,
                     !.dialog = "tfcConfirmCloseAll",
                     !.trail.dialogs = @ + 1]
       IN  /\ Reconcile(Account, t1, 1)
           /\ last' = UserAction(request)

(* the Account answers confirmOrder *)
Confirmation ==
    /\ tfc.confirming # NoRequest
    /\ \E errors \in BOOLEAN :
        /\ Reconcile(Account, confirmation(tfc, errors), 0)
        /\ last' = Last("confirmation", chartSymbol, tfc.confirming.order.id,
                        tfc.confirming.order, 0, 0, FALSE)

(* the user clicks the submit button of the displayed dialog: the closure  *)
(* clears the handlers and calls placeOrder, account.cancelOrder or        *)
(* account.closeAllPositions; a vsp order takes its quantity from the      *)
(* input of the dialog                                                     *)
Submit ==
    /\ tfc.dialog # ""
    /\ tfc.pending = NoCall
    /\ tfc.submit[tfc.dialog] # NoRequest
    /\ tfc.dialog = "tfcConfirmOrder" => ~tfc.submitHidden
    /\ LET request == tfc.submit[tfc.dialog]
       IN  \E quantity \in
               IF request.gui = "vsp"
               THEN {q \in Qtys \cup {request.old.quantity} :
                        q <= request.old.quantity}
               ELSE {request.order.quantity} :
             LET filled == [request EXCEPT !.order.quantity = quantity]
                 t0 == [tfc EXCEPT !.submit[tfc.dialog] = NoRequest]
                 t1 == IF request.gui = "cancel"
                       THEN accountCall(t0, "cancelOrder", request)
                       ELSE IF request.gui = "closeAll"
                       THEN accountCall(t0, "closeAllPositions", request)
                       ELSE tfcPlaceOrder(t0, filled)
             IN  /\ Reconcile(Account, t1, 0)
                 /\ last' = Last("submit", chartSymbol, request.order.id,
                                 filled.order, 0, 0, FALSE)

(* the user clicks the abandon button: STX.DialogManager.dismissDialog *)
Abandon ==
    /\ tfc.dialog # ""
    /\ tfc.pending = NoCall
    /\ Reconcile(Account, [tfc EXCEPT !.dialog = ""], 0)
    /\ last' = Last("abandon", chartSymbol, "", NoOrder, 0, 0, FALSE)

(* the Account calls the callback of the mutation in flight *)
Callback ==
    /\ tfc.pending # NoCall
    /\ \E err \in BOOLEAN, result \in Results(tfc.pending) :
        LET r == reconcile(Account, tfc, chartSymbol, result)
        IN  /\ Reconcile(r.st, r.t, 0)
            /\ last' = [Last("callback", chartSymbol,
                             tfc.pending.request.order.id,
                             tfc.pending.request.order, 0, 1, FALSE)
                           EXCEPT !.call = tfc.pending.call,
                                  !.err = err,
                                  !.result = result,
                                  !.legs = tfc.pending.request.legs]

(* the user taps the row of another symbol while a mutation is in flight: *)
(* closure(params) calls tfc.selectSymbol(params.symbol), which gives the   *)
(* chart that symbol; a displayed dialog keeps the rows out of reach        *)
SelectSymbol ==
    /\ tfc.pending # NoCall
    /\ tfc.dialog = ""
    /\ \E symbol \in Symbols \ {chartSymbol} :
        /\ chartSymbol' = symbol
        /\ last' = Last("selectSymbol", symbol, "", NoOrder, 0, 0, FALSE)
    /\ pre' = Snapshot
    /\ UNCHANGED <<positions, trades, openOrders, ooKeys, balances, nextId,
                   ops, symbolArg, reported, tfc, updates>>

(* account.fetchTrades sets this.trades afresh while the dialog of a close *)
(* awaits the user: a lot of the symbol has been closed at the broker      *)
FetchTrades ==
    /\ tfc.dialog = "tfcConfirmOrder"
    /\ tfc.pending = NoCall
    /\ ~tfc.submitHidden
    /\ tfc.submit[tfc.dialog].type = "close"
    /\ LET symbol == tfc.submit[tfc.dialog].order.symbol
       IN  /\ Has(trades, symbol)
           /\ \E i \in 1..Len(trades[symbol]) :
                  trades' = [trades EXCEPT ![symbol] = RemoveAt(@, i)]
           /\ last' = Last("fetchTrades", symbol, "", NoOrder, 0, 1, FALSE)
    /\ pre' = Snapshot
    /\ UNCHANGED <<positions, openOrders, ooKeys, balances, nextId,
                   chartSymbol, ops, symbolArg, reported, tfc, updates>>

(* account.fetchPositions sets this.positions afresh while the dialog of a *)
(* close awaits the user: the symbol's position is gone                    *)
FetchPositions ==
    /\ tfc.dialog = "tfcConfirmOrder"
    /\ tfc.pending = NoCall
    /\ ~tfc.submitHidden
    /\ tfc.submit[tfc.dialog].type = "close"
    /\ LET symbol == tfc.submit[tfc.dialog].order.symbol
       IN  /\ Has(positions, symbol)
           /\ positions' = Del(positions, symbol)
           /\ last' = Last("fetchPositions", symbol, "", NoOrder, 0, 1, FALSE)
    /\ pre' = Snapshot
    /\ UNCHANGED <<trades, openOrders, ooKeys, balances, nextId,
                   chartSymbol, ops, symbolArg, reported, tfc, updates>>

InitController ==
    /\ positions = DemoPositions
    /\ trades = DemoTrades
    /\ openOrders = DemoOpenOrders
    /\ ooKeys = DemoOoKeys
    /\ balances = NoBalances
    /\ nextId = 1
    /\ chartSymbol \in Symbols
    /\ ops = 0
    /\ last = Last("new", "", "", NoOrder, 0, 0, FALSE)
    /\ symbolArg = NoSymbol
    /\ reported = NotReported
    /\ \E skipConfirms \in BOOLEAN : tfc = TFC(skipConfirms)
    /\ pre = Snapshot
    /\ updates = <<>>

NextController ==
    \/ ConfirmOrPlaceOrder
    \/ CancelOpenOrder
    \/ ConfirmClose
    \/ ConfirmVspTrade
    \/ ConfirmCloseAllPositions
    \/ Confirmation
    \/ Submit
    \/ Abandon
    \/ SelectSymbol
    \/ FetchTrades
    \/ FetchPositions
    \/ Callback

SpecController == InitController /\ [][NextController]_vars

----------------------------------------------------------------------------
(* account.tradability(symbol, cb) on its own, for every symbol of up to   *)
(* MaxSymbolLen characters and for no symbol at all                        *)

InitTradability ==
    /\ positions = DemoPositions
    /\ trades = DemoTrades
    /\ openOrders = DemoOpenOrders
    /\ ooKeys = DemoOoKeys
    /\ balances = NoBalances
    /\ nextId = 1
    /\ chartSymbol = "IBM"
    /\ ops = 0
    /\ last = Last("new", "", "", NoOrder, 0, 0, FALSE)
    /\ \/ symbolArg = NoSymbol
       \/ \E len \in 0..MaxSymbolLen :
             \E chars \in [1..len -> SymbolChars] :
                symbolArg = [given |-> TRUE, chars |-> chars]
    /\ reported = NotReported
    /\ tfc = TFC(FALSE)
    /\ pre = Snapshot
    /\ updates = <<>>

Tradability ==
    /\ ~reported.called
    /\ reported' = tradability(symbolArg)
    /\ UNCHANGED <<positions, trades, openOrders, ooKeys, balances, nextId,
                   chartSymbol, ops, last, pre, symbolArg, tfc, updates>>

NextTradability == Tradability

SpecTradability == InitTradability /\ [][NextTradability]_vars

----------------------------------------------------------------------------
(* The patches of the controller on an Account that keeps its book in      *)
(* this.openOrders, as the Demo account does, and that passes the ids it   *)
(* gave to the callback. Its fetches are those of STX.Account and of the   *)
(* Demo account: they call back and set nothing.                           *)

(* STX.Account.prototype.fetchOpenOrders / STX.Account.Demo's: cb() *)
fetchOpenOrders(st) == st

(* account.placeOrder rests the order under a new id and calls back with   *)
(* that id; the callback pushes the order and calls updateData, whose      *)
(* fetchOpenOrders calls back at once                                      *)
PlaceRested ==
    /\ ops < MaxOps
    /\ \E action \in formActions(chartSymbol), isLimitOrder \in BOOLEAN,
          quantity \in Qtys :
        LET order == newOrder(chartSymbol, action, quantity,
                              IF isLimitOrder THEN RestPrice ELSE 0,
                              IF isLimitOrder THEN 0 ELSE RestPrice,
                              "GTC", <<>>, "")
            id == uniqueID(nextId)
            request == Request("order", "order", order, NoOrder, <<>>, 2)
            rested == placeOrder(Account, order, 0, 0)
            patched == patchPlace(rested, chartSymbol, request, <<id>>)
        IN  /\ Commit(fetchOpenOrders(patched))
            /\ last' = [Last("placeOrder", chartSymbol, id, order, 0, 1, FALSE)
                           EXCEPT !.result = [defined |-> TRUE, id |-> <<id>>]]

(* account.setProtection calls back with the ids of the legs, as the Demo  *)
(* account does; the callback patches the lot and the open orders          *)
ProtectLot ==
    /\ ops < MaxOps
    /\ Has(trades, chartSymbol)
    /\ \E t \in 1..Len(trades[chartSymbol]),
          shown \in {<<1, 2>>, <<1>>, <<2>>} :
        LET trade == trades[chartSymbol][t]
            both == ocoFromGUI(chartSymbol,
                               IF trade.quantity > 0 THEN "bracket_sell"
                               ELSE "bracket_cover",
                               Abs(trade.quantity))
            order == [n \in 1..Len(shown) |->
                        [both[shown[n]] EXCEPT !.tradeid = trade.id]]
            id == setProtection(order)
            r == patchProtection(Account, chartSymbol, order, id)
        IN  /\ ~r.threw
            /\ Commit(fetchOpenOrders(r.st))
            /\ last' = [Last("setProtection", chartSymbol, trade.id,
                             NoOrder, 0, 1, FALSE)
                           EXCEPT !.result = [defined |-> TRUE, id |-> id],
                                  !.legs = order]

(* the same protection is submitted again and the Account answers with the *)
(* same ids: the callback patches a second time                            *)
ProtectLotAgain ==
    /\ last.op = "setProtection"
    /\ LET r == patchProtection(Account, chartSymbol, last.legs, last.result.id)
       IN  /\ ~r.threw
           /\ Commit(fetchOpenOrders(r.st))
           /\ last' = [last EXCEPT !.op = "setProtectionAgain"]

NextReconcile == PlaceRested \/ ProtectLot \/ ProtectLotAgain

SpecReconcile == Init /\ [][NextReconcile]_vars

----------------------------------------------------------------------------
(* STX.TFC.prototype.updateData: a render from the cache, four fetches, a  *)
(* second render when the last of the four callbacks has fired             *)

MaxUpdates == 3

Fetches == {"fetchBalances", "fetchTrades", "fetchPositions", "fetchOpenOrders"}

(* update(): one render; the log keeps the counter's value at each render *)
update(u) == [u EXCEPT !.renders = Append(@, u.fetched)]

(* cb, rendering as soon as three callbacks have fired *)
cbRendersEarly(u) ==
    LET u1 == [u EXCEPT !.fetched = @ + 1]
    IN  IF u1.fetched < 3 THEN u1 ELSE update(u1)

(* the function cb(fetched) returns: fetched.fetched++, return if <4, update *)
cb(u) ==
    LET u1 == [u EXCEPT !.fetched = @ + 1]
    IN  IF u1.fetched < 4 THEN u1 ELSE update(u1)

(* one call: its own counter object, the first update(), the four fetches  *)
(* issued with cb(fetched)                                                 *)
updateData == update([fetched |-> 0, due |-> Fetches, renders |-> <<>>])

InitUpdateData ==
    /\ positions = DemoPositions
    /\ trades = DemoTrades
    /\ openOrders = DemoOpenOrders
    /\ ooKeys = DemoOoKeys
    /\ balances = NoBalances
    /\ nextId = 1
    /\ chartSymbol = "IBM"
    /\ ops = 0
    /\ last = Last("new", "", "", NoOrder, 0, 0, FALSE)
    /\ symbolArg = NoSymbol
    /\ reported = NotReported
    /\ tfc = TFC(FALSE)
    /\ pre = Snapshot
    /\ updates = <<>>

UpdateData ==
    /\ Len(updates) < MaxUpdates
    /\ updates' = Append(updates, updateData)
    /\ UNCHANGED <<positions, trades, openOrders, ooKeys, balances, nextId,
                   chartSymbol, ops, last, pre, symbolArg, reported, tfc>>

(* the account calls back the fetch f of the k-th updateData call *)
FetchCallbackOf(k, f) ==
    /\ k \in 1..Len(updates)
    /\ f \in updates[k].due
    /\ updates' = [updates EXCEPT ![k] = [cb(updates[k]) EXCEPT !.due = @ \ {f}]]
    /\ UNCHANGED <<positions, trades, openOrders, ooKeys, balances, nextId,
                   chartSymbol, ops, last, pre, symbolArg, reported, tfc>>

FetchCallback == \E k \in 1..MaxUpdates, f \in Fetches : FetchCallbackOf(k, f)

NextUpdateData == UpdateData \/ FetchCallback

SpecUpdateData == InitUpdateData /\ [][NextUpdateData]_vars

(* every fetch that was issued eventually calls back *)
FairUpdateData ==
    \A k \in 1..MaxUpdates : \A f \in Fetches : WF_vars(FetchCallbackOf(k, f))

SpecUpdateDataLive == SpecUpdateData /\ FairUpdateData

----------------------------------------------------------------------------
(* STX.TFC: the limit order form. A limit or a stop, from the price of the *)
(* drag line and the quote                                                 *)

CenterPrices == {2480, 2490, 2500, 2510, 2520}

NoQuote == [has |-> FALSE, Bid |-> 0, Ask |-> 0, Close |-> 0]

(* stx.currentQuote(): Bid and Ask may be missing (0) *)
Quotes ==
    {[has |-> TRUE, Bid |-> b, Ask |-> a, Close |-> 2500] :
        b \in {0, 2490}, a \in {0, 2510}} \cup {NoQuote}

(* chart.yAxis.minimumPriceTick, in cents; 0: none defined *)
MinTicks == {0, 25}

(* STX.TFC.prototype.snapPrice: Math.round(price/minTick)*minTick; without *)
(* a tick the price is rounded to eight places, which leaves cents alone   *)
snapPrice(price, minTick) ==
    IF minTick = 0 THEN price
    ELSE ((2 * price + minTick) \div (2 * minTick)) * minTick

(* STX.TFC.prototype.getCurrentPriceForOrder with an action: the bid for a *)
(* sell or a short, the ask for a buy or a cover, the close where the      *)
(* quote has none; without a quote bid and ask are null, which snaps to 0  *)
getCurrentPriceForOrder(quote, activeTrade, minTick) ==
    LET bid == IF ~quote.has THEN 0
               ELSE IF quote.Bid # 0 THEN quote.Bid ELSE quote.Close
        ask == IF ~quote.has THEN 0
               ELSE IF quote.Ask # 0 THEN quote.Ask ELSE quote.Close
    IN  snapPrice(IF activeTrade \in {"sell", "short"} THEN bid ELSE ask,
                  minTick)

(* isLimit, with strict comparisons *)
isLimitStrict(action, centerPrice, currentPrice) ==
    IF action \in {"buy", "cover"} THEN centerPrice < currentPrice
    ELSE centerPrice > currentPrice

(* the comparison of createOrderFromGUI and createReplaceFromGUI: TRUE for *)
(* order.limit, FALSE for order.stop                                       *)
isLimit(action, centerPrice, currentPrice) ==
    IF action \in {"buy", "cover"} THEN centerPrice <= currentPrice
    ELSE centerPrice >= currentPrice

(* STX.TFC.prototype.createOrderFromGUI for limit_buy, limit_sell,         *)
(* limit_short and limit_cover                                             *)
createOrderFromGUI(symbol, action, quantity, tif, centerPrice, currentPrice, flipped) ==
    LET limit == isLimit(action, centerPrice, currentPrice)
    IN  newOrder(symbol, action, quantity,
                 IF ~flipped /\ limit THEN centerPrice ELSE 0,
                 IF ~flipped /\ ~limit THEN centerPrice ELSE 0,
                 tif, <<>>, "")

(* the form: dragLineCenterPrice, the quote, limitFlippedToMarket *)
Forms ==
    [centerPrice : CenterPrices, quote : Quotes, minTick : MinTicks,
     limitFlippedToMarket : BOOLEAN]

InitForm ==
    /\ positions = DemoPositions
    /\ trades = DemoTrades
    /\ openOrders = DemoOpenOrders
    /\ ooKeys = DemoOoKeys
    /\ balances = NoBalances
    /\ nextId = 1
    /\ chartSymbol \in Symbols
    /\ ops = 0
    /\ last = Last("new", "", "", NoOrder, 0, 0, FALSE)
    /\ symbolArg = NoSymbol
    /\ reported = NotReported
    /\ \E form \in Forms : tfc = TFC(FALSE) @@ [form |-> form]
    /\ pre = Snapshot
    /\ updates = <<>>

CreateOrderFromGUI ==
    /\ last.op = "new"
    /\ \E action \in formActions(chartSymbol) :
        LET f == tfc.form
            currentPrice == getCurrentPriceForOrder(f.quote, action, f.minTick)
        IN  last' = Last("createOrderFromGUI", chartSymbol, "",
                         createOrderFromGUI(chartSymbol, action, 100, "GTC",
                                            f.centerPrice, currentPrice,
                                            f.limitFlippedToMarket),
                         currentPrice, 0, FALSE)
    /\ UNCHANGED <<positions, trades, openOrders, ooKeys, balances, nextId,
                   chartSymbol, ops, pre, symbolArg, reported, tfc, updates>>

CreateReplaceFromGUI ==
    /\ last.op = "new"
    /\ Has(openOrders, chartSymbol)
    /\ \E n \in 1..Len(openOrders[chartSymbol]) :
        LET f == tfc.form
            m == openOrders[chartSymbol][n]
            currentPrice == getCurrentPriceForOrder(f.quote, m.action, f.minTick)
            limit == isLimit(m.action, f.centerPrice, currentPrice)
        IN  last' = Last("createReplaceFromGUI", chartSymbol, m.id,
                         createReplaceFromGUI(chartSymbol, m, f.centerPrice,
                                              limit, m.quantity, 2).order,
                         currentPrice, 0, FALSE)
    /\ UNCHANGED <<positions, trades, openOrders, ooKeys, balances, nextId,
                   chartSymbol, ops, pre, symbolArg, reported, tfc, updates>>

NextForm == CreateOrderFromGUI \/ CreateReplaceFromGUI

SpecForm == InitForm /\ [][NextForm]_vars

----------------------------------------------------------------------------
(* Vocabulary of the properties *)

AllOpenOrders(oo) ==
    UNION {{oo[s][i] : i \in 1..Len(oo[s])} : s \in DOMAIN oo}

PositionQty(pos, symbol) ==
    IF Has(pos, symbol) THEN pos[symbol].quantity ELSE 0

IsFill == last.op = "placeOrder" /\ isMarket(last.order)

RealId(oco) == oco # "" /\ oco # "true"

----------------------------------------------------------------------------
(* C1: for every symbol, the signed sum of the quantities of               *)
(* trades[symbol] equals positions[symbol].quantity, taken as 0 when the   *)
(* symbol has no position.                                                 *)
C1_LotsSumToPosition ==
    \A symbol \in Symbols :
        SumQty(Get(trades, symbol)) = PositionQty(positions, symbol)

(* a closing fill has gone through the lots, flipped the position and left *)
(* the residual as a lot                                                   *)
C1_Witness ==
    /\ IsFill
    /\ Has(pre.positions, last.symbol) /\ Has(positions, last.symbol)
    /\ pre.positions[last.symbol].quantity * positions[last.symbol].quantity < 0
    /\ Len(trades[last.symbol]) = 1

(* C2: no entry of positions has quantity 0: a fill or a close that brings *)
(* a position to exactly 0 leaves positions[symbol] absent.                *)
C2_NoZeroPosition ==
    \A symbol \in DOMAIN positions : positions[symbol].quantity # 0

(* a fill of exactly the size of the position has removed it *)
C2_Witness ==
    /\ IsFill
    /\ Has(pre.positions, last.symbol)
    /\ pre.positions[last.symbol].quantity + signedQuantity(last.order) = 0
    /\ ~Has(positions, last.symbol)

(* C3: no lot of any trades[symbol] has quantity 0: a lot brought to 0 by  *)
(* lot consumption is removed and no fill appends a zero-quantity lot.     *)
C3_NoZeroLot ==
    \A symbol \in DOMAIN trades :
        \A t \in 1..Len(trades[symbol]) : trades[symbol][t].quantity # 0

(* a closing fill has absorbed a whole lot, which is gone, and others stay *)
C3_Witness ==
    /\ IsFill
    /\ Has(pre.trades, last.symbol) /\ Has(trades, last.symbol)
    /\ \E t \in 1..Len(pre.trades[last.symbol]) :
          /\ Abs(pre.trades[last.symbol][t].quantity) = last.order.quantity
          /\ \A u \in 1..Len(trades[last.symbol]) :
                trades[last.symbol][u].id # pre.trades[last.symbol][t].id
    /\ Len(trades[last.symbol]) = Len(pre.trades[last.symbol]) - 1

(* C4: every open order whose oco is an order id refers to an order that   *)
(* is still open and whose oco is the id of the first; a side whose        *)
(* sibling was cancelled has oco null.                                     *)
C4_OcoSymmetric ==
    \A o \in AllOpenOrders(openOrders) :
        RealId(o.oco) =>
            \E o2 \in AllOpenOrders(openOrders) :
                o2.id = o.oco /\ o2.oco = o.id

(* one side of a pair has been cancelled: the other is open with oco null, *)
(* while another pair is still linked                                      *)
C4_Witness ==
    /\ last.op = "cancelOrder"
    /\ \E o \in AllOpenOrders(pre.openOrders) :
          /\ o.oco = last.id
          /\ [o EXCEPT !.oco = ""] \in AllOpenOrders(openOrders)
    /\ \E o \in AllOpenOrders(openOrders) : RealId(o.oco)

(* C5: cancelOrder on one leg of an OCO pair removes exactly that leg from  *)
(* openOrders; the sibling stays in the same list, all its other fields    *)
(* unchanged and its oco null, whichever leg is cancelled.                 *)
CancelledLegs ==
    {i \in 1..Len(Get(pre.openOrders, last.symbol)) :
        /\ pre.openOrders[last.symbol][i].id = last.id
        /\ RealId(pre.openOrders[last.symbol][i].oco)}

Severed(oo, id) ==
    [i \in 1..Len(oo) |->
        IF oo[i].oco = id THEN [oo[i] EXCEPT !.oco = ""] ELSE oo[i]]

C5_CancelRemovesOnlyThatLeg ==
    (last.op = "cancelOrder" /\ CancelledLegs # {}) =>
        /\ DOMAIN openOrders = DOMAIN pre.openOrders
        /\ \A symbol \in DOMAIN pre.openOrders :
              openOrders[symbol] =
                  IF symbol = last.symbol
                  THEN Severed(SelectSeq(pre.openOrders[symbol],
                                         LAMBDA o : o.id # last.id),
                               last.id)
                  ELSE pre.openOrders[symbol]

(* C6: cancelOrder of an open order that has a tradeid clears, on the lot  *)
(* with that id, the protect sub-field of the cancelled leg and leaves the *)
(* other sub-field intact; once no leg of the lot is left open the lot has *)
(* no protect object.                                                      *)
C6_CancelClearsProtect ==
    last.op = "cancelOrder" =>
        \A symbol \in DOMAIN pre.openOrders :
          \A o \in {pre.openOrders[symbol][i] :
                        i \in 1..Len(pre.openOrders[symbol])} :
            (o.id = last.id /\ o.tradeid # "" /\ Has(pre.trades, symbol)) =>
              \A t \in 1..Len(pre.trades[symbol]) :
                pre.trades[symbol][t].id = o.tradeid =>
                  LET before == pre.trades[symbol][t].protect
                      after == trades[symbol][t].protect
                      legsLeft == {o2 \in AllOpenOrders(openOrders) :
                                      o2.tradeid = o.tradeid}
                  IN  /\ o.stop # 0 =>
                            after.stop = 0 /\ after.limit = before.limit
                      /\ (o.stop = 0 /\ o.limit # 0) =>
                            after.limit = 0 /\ after.stop = before.stop
                      /\ legsLeft = {} => ~after.has

(* C7: after closeAllPositions, positions and trades are empty, every open *)
(* order with a tradeid is gone, consecutive ones included, and every open *)
(* order without a tradeid is still there, unchanged.                      *)
C7_CloseAllPositions ==
    last.op = "closeAllPositions" =>
        /\ positions = <<>>
        /\ trades = <<>>
        /\ DOMAIN openOrders = DOMAIN pre.openOrders
        /\ \A symbol \in DOMAIN pre.openOrders :
              openOrders[symbol] =
                  SelectSeq(pre.openOrders[symbol], LAMBDA o : o.tradeid = "")

(* closeAllPositions has run on lists that held two tradeid-linked orders  *)
(* in a row and orders without a tradeid                                   *)
C7_Witness ==
    /\ last.op = "closeAllPositions"
    /\ \E symbol \in DOMAIN pre.openOrders :
          \E i \in 1..(Len(pre.openOrders[symbol]) - 1) :
              /\ pre.openOrders[symbol][i].tradeid # ""
              /\ pre.openOrders[symbol][i + 1].tradeid # ""
    /\ \E o \in AllOpenOrders(openOrders) : o.tradeid = ""
    /\ pre.positions # <<>>

(* the signed quantity of the fill of the last step *)
FillQty ==
    IF last.order.action \in {"sell", "short"} THEN -last.order.quantity
    ELSE last.order.quantity

(* the last step placed a market buy whose oto children carry a stop price *)
(* and a limit price                                                       *)
IsBracketBuy ==
    /\ IsFill
    /\ last.order.action = "buy"
    /\ last.order.vspId = ""
    /\ \E n \in 1..Len(last.order.oto) : last.order.oto[n].stop # 0
    /\ \E n \in 1..Len(last.order.oto) : last.order.oto[n].limit # 0

BracketEffect ==
    LET symbol == last.symbol
        q == last.order.quantity
        s == (CHOOSE leg \in {last.order.oto[n] : n \in 1..Len(last.order.oto)} :
                 leg.stop # 0).stop
        l == (CHOOSE leg \in {last.order.oto[n] : n \in 1..Len(last.order.oto)} :
                 leg.limit # 0).limit
        lotsBefore == Get(pre.trades, symbol)
        lots == Get(trades, symbol)
        ordersBefore == Get(pre.openOrders, symbol)
        orders == Get(openOrders, symbol)
        added == {orders[i] : i \in (Len(ordersBefore) + 1)..Len(orders)}
    IN  /\ PositionQty(positions, symbol)
              = PositionQty(pre.positions, symbol) + q
        /\ Len(lots) = Len(lotsBefore) + 1
        /\ SubSeq(lots, 1, Len(lotsBefore)) = lotsBefore
        /\ lots[Len(lots)].quantity = q
        /\ Len(orders) = Len(ordersBefore) + 2
        /\ SubSeq(orders, 1, Len(ordersBefore)) = ordersBefore
        /\ \E a \in added, b \in added :
              /\ a.stop = s /\ a.limit = 0
              /\ b.limit = l /\ b.stop = 0
              /\ a.quantity = q /\ b.quantity = q
              /\ a.tradeid = lots[Len(lots)].id
              /\ b.tradeid = lots[Len(lots)].id
              /\ a.id # b.id
              /\ a.oco = b.id /\ b.oco = a.id

(* C8, as stated: a market buy of q with an oto stop s and an oto limit l  *)
(* increases the position by q, appends exactly one new lot of quantity q  *)
(* and adds exactly two open orders, one with stop s and one with limit l, *)
(* both of quantity q, both with the new lot's id as tradeid, each with    *)
(* the other's id as oco.                                                  *)
C8_BracketBuy == IsBracketBuy => BracketEffect

(* C8, amended: the same, when the symbol has no short position at the     *)
(* time of the order (no position, or a long one).                         *)
C8_BracketBuyNotShort ==
    (IsBracketBuy /\ PositionQty(pre.positions, last.symbol) >= 0)
        => BracketEffect

(* a bracketed market buy has been added to a long position that already   *)
(* had lots and open orders                                                *)
C8_Witness ==
    /\ IsBracketBuy
    /\ PositionQty(pre.positions, last.symbol) > 0
    /\ Get(pre.openOrders, last.symbol) # <<>>
    /\ Len(Get(trades, last.symbol)) >= 2

(* C9: a closing fill that carries a vspId modifies only the lot with that *)
(* id: every other lot keeps its id, quantity and place, and when the fill *)
(* is smaller than the lot the lot is reduced by exactly the fill quantity.*)
IsVsp == IsFill /\ last.order.vspId # ""

C9_VspTouchesOnlyItsLot ==
    IsVsp =>
        LET before == pre.trades[last.symbol]
            after == Get(trades, last.symbol)
            q == last.order.quantity
            other(lot) == lot.id # last.order.vspId
        IN  /\ SelectSeq(after, other) = SelectSeq(before, other)
            /\ \A t \in 1..Len(before) :
                  (before[t].id = last.order.vspId
                        /\ q < Abs(before[t].quantity)) =>
                      /\ Len(after) = Len(before)
                      /\ \A u \in 1..Len(before) :
                            after[u] =
                                IF u = t
                                THEN [before[t] EXCEPT !.quantity =
                                        IF @ > 0 THEN @ - q ELSE @ + q]
                                ELSE before[u]

(* a lot that is not the first of its symbol has been reduced in part,     *)
(* with lots before and after it                                           *)
C9_Witness ==
    /\ IsVsp
    /\ \E t \in 2..Len(pre.trades[last.symbol]) :
          /\ pre.trades[last.symbol][t].id = last.order.vspId
          /\ last.order.quantity < Abs(pre.trades[last.symbol][t].quantity)
          /\ t < Len(pre.trades[last.symbol])

(* C10: from no position, a fill of q1 at p1 followed by a fill of q2 at   *)
(* p2 in the same direction leaves position.quantity = q1+q2 (signed) and  *)
(* position.basis = (q1*p1 + q2*p2)/(q1+q2) rounded to the cent.           *)
(* The state before the second fill is the one a first fill from no        *)
(* position leaves: quantity q1, basis = price = prevClose = p1, one lot.  *)
AfterFirstFill(symbol) ==
    /\ Has(pre.positions, symbol)
    /\ pre.positions[symbol].price = pre.positions[symbol].basis
    /\ pre.positions[symbol].prevClose = pre.positions[symbol].basis
    /\ Has(pre.trades, symbol)
    /\ Len(pre.trades[symbol]) = 1
    /\ pre.trades[symbol][1].quantity = pre.positions[symbol].quantity
    /\ pre.trades[symbol][1].basis = pre.positions[symbol].basis

C10_WeightedBasis ==
    (IsFill /\ AfterFirstFill(last.symbol)
            /\ pre.positions[last.symbol].quantity * FillQty > 0) =>
        LET q1 == pre.positions[last.symbol].quantity
            p1 == pre.positions[last.symbol].basis
            q2 == FillQty
            p2 == last.price
        IN  /\ Has(positions, last.symbol)
            /\ positions[last.symbol].quantity = q1 + q2
            /\ 2 * Abs(positions[last.symbol].basis * (q1 + q2)
                          - (q1 * p1 + q2 * p2)) <= Abs(q1 + q2)

(* two fills of different sizes at different prices, whose weighted basis  *)
(* is not a whole number of cents                                          *)
C10_Witness ==
    /\ IsFill /\ AfterFirstFill(last.symbol)
    /\ pre.positions[last.symbol].quantity * FillQty > 0
    /\ pre.positions[last.symbol].quantity # FillQty
    /\ pre.positions[last.symbol].basis # last.price
    /\ Has(positions, last.symbol)
    /\ positions[last.symbol].basis * (pre.positions[last.symbol].quantity + FillQty)
          # pre.positions[last.symbol].quantity * pre.positions[last.symbol].basis
                + FillQty * last.price

(* C11: placeOrder of a single order that carries any of limit, stop and   *)
(* marketIfTouched (marketIfTouched alone included) appends the order to   *)
(* openOrders[symbol] and leaves positions, trades and balances unchanged; *)
(* only an order with none of the three is executed at once.               *)
CarriesPrice(order) ==
    order.limit # 0 \/ order.stop # 0 \/ order.marketIfTouched # 0

C11_PricedOrderRests ==
    (last.op = "placeOrder" /\ CarriesPrice(last.order)) =>
        /\ positions = pre.positions
        /\ trades = pre.trades
        /\ balances = pre.balances
        /\ Has(openOrders, last.symbol)
        /\ Len(openOrders[last.symbol])
              = Len(Get(pre.openOrders, last.symbol)) + 1
        /\ SubSeq(openOrders[last.symbol], 1,
                  Len(Get(pre.openOrders, last.symbol)))
              = Get(pre.openOrders, last.symbol)
        /\ LET o == openOrders[last.symbol][Len(openOrders[last.symbol])]
           IN  /\ o.action = last.order.action
               /\ o.quantity = last.order.quantity
               /\ o.limit = last.order.limit
               /\ o.stop = last.order.stop
               /\ o.marketIfTouched = last.order.marketIfTouched

(* C12: on success placeOrder invokes its callback with a result carrying  *)
(* the assigned id: {id} for a single order and {id:[id1,id2]} for a       *)
(* two-element OCO array, the ids being those the resting orders carry in  *)
(* openOrders.                                                             *)
C12_CallbackCarriesId ==
    LET oo == Get(openOrders, last.symbol)
    IN  /\ (last.op = "placeOrder" /\ ~isMarket(last.order)) =>
              /\ last.cb = 1
              /\ last.result.defined
              /\ last.result.id = << oo[Len(oo)].id >>
        /\ last.op = "placeOCO" =>
              /\ last.cb = 1
              /\ last.result.defined
              /\ last.result.id = << oo[Len(oo) - 1].id, oo[Len(oo)].id >>

(* the places of the open orders: symbol and index *)
Slots(oo) == UNION {{<<s, i>> : i \in 1..Len(oo[s])} : s \in DOMAIN oo}

(* C13: in every state reachable from the constructed Demo account no two  *)
(* open orders (across all symbols) share an id; every order placeOrder    *)
(* accepts gets an id distinct from every id already present; so a         *)
(* cancelOrder by id removes at most one open order.                       *)
C13_UniqueIds ==
    /\ \A a \in Slots(openOrders), b \in Slots(openOrders) :
          a # b => openOrders[a[1]][a[2]].id # openOrders[b[1]][b[2]].id
    /\ (last.op = "placeOrder" /\ ~isMarket(last.order)) =>
          LET oo == Get(openOrders, last.symbol)
          IN  \A a \in Slots(pre.openOrders) :
                 pre.openOrders[a[1]][a[2]].id # oo[Len(oo)].id
    /\ last.op = "cancelOrder" =>
          Cardinality(Slots(pre.openOrders))
              - Cardinality(Slots(openOrders)) <= 1

(* C14: every Demo mutation operation (placeOrder, replaceOrder,           *)
(* cancelOrder, setProtection, closeAllPositions, closePosition,           *)
(* closeTrade) invokes its completion callback exactly once on every call, *)
(* a replaceOrder or cancelOrder whose id matches no open order included.  *)
C14_CallbackOnce == last.op # "new" => last.cb = 1

(* the id of the last request is that of no open order, nor the oco of one *)
NoSuchOrder ==
    \A o \in AllOpenOrders(pre.openOrders) :
        o.id # last.id /\ (last.op = "cancelOrder" => o.oco # last.id)

(* C15: replaceOrder or cancelOrder with an id that equals no open order's *)
(* id (and, for cancel, no open order's oco) is a silent no-op: positions, *)
(* trades, openOrders and balances are unchanged and no error is reported. *)
C15_UnknownIdNoOp ==
    (last.op \in {"cancelOrder", "replaceOrder"} /\ NoSuchOrder) =>
        /\ positions = pre.positions
        /\ trades = pre.trades
        /\ openOrders = pre.openOrders
        /\ balances = pre.balances
        /\ ~last.threw

(* a replaceOrder for an unknown id on an account that has open orders and *)
(* has already changed since its construction                              *)
C15_Witness ==
    /\ last.op = "replaceOrder" /\ NoSuchOrder
    /\ AllOpenOrders(openOrders) # {}
    /\ ops >= 2
    /\ openOrders # DemoOpenOrders

(* C16: after replaceOrder for an id that matches an open order, that      *)
(* order keeps its id and its place in openOrders[symbol], and each of its *)
(* limit, stop, marketIfTouched, quantity, tif and oto equals the          *)
(* request's new value for that field (a field with no new value is        *)
(* cleared); no other open order is changed.                               *)
C16_ReplaceSetsFields ==
    (last.op = "replaceOrder" /\ ~NoSuchOrder) =>
        \E a \in Slots(pre.openOrders) :
            /\ pre.openOrders[a[1]][a[2]].id = last.id
            /\ openOrders =
                 [pre.openOrders EXCEPT ![a[1]][a[2]] =
                     [@ EXCEPT !.limit = last.order.limit,
                               !.stop = last.order.stop,
                               !.marketIfTouched = last.order.marketIfTouched,
                               !.quantity = last.order.quantity,
                               !.tif = last.order.tif,
                               !.oto = last.order.oto]]

(* C17: after setProtection(orders, cb) completes for an existing lot, the *)
(* account's openOrders for the lot's symbol contain one protective order  *)
(* per leg with tradeid equal to the lot's id, and cb receives exactly one *)
(* assigned id per leg, in leg order.                                      *)
C17_SetProtection ==
    last.op = "setProtection" =>
        LET linked(o) == o.tradeid = last.id
            prot == SelectSeq(Get(openOrders, last.symbol), linked)
        IN  /\ last.cb = 1
            /\ last.result.defined
            /\ Len(last.result.id) = Len(last.legs)
            /\ Len(prot) = Len(last.legs)
            /\ \A n \in 1..Len(last.legs) :
                  /\ prot[n].id = last.result.id[n]
                  /\ prot[n].limit = last.legs[n].limit
                  /\ prot[n].stop = last.legs[n].stop
                  /\ linked(last.legs[n])

(* a lot that already had two protective orders has been given a bracket   *)
(* of two legs at other prices                                             *)
C17_Witness ==
    /\ last.op = "setProtection"
    /\ Len(last.legs) = 2
    /\ LET linked(o) == o.tradeid = last.id
       IN  /\ Len(SelectSeq(Get(pre.openOrders, last.symbol), linked)) = 2
           /\ SelectSeq(Get(pre.openOrders, last.symbol), linked)
                 # SelectSeq(Get(openOrders, last.symbol), linked)

(* C18: closePosition(position) removes positions[symbol], removes every   *)
(* lot of trades[symbol], and removes every open order of that symbol      *)
(* whose tradeid references one of those lots; open orders of that symbol  *)
(* without a tradeid and all positions, trades and open orders of other    *)
(* symbols are unchanged.                                                  *)
C18_ClosePosition ==
    (last.op = "closePosition" /\ ~last.threw) =>
        LET symbol == last.symbol
            lots == {pre.trades[symbol][t].id :
                        t \in 1..Len(Get(pre.trades, symbol))}
            kept(o) == o.tradeid \notin lots
        IN  /\ positions = Del(pre.positions, symbol)
            /\ trades = Del(pre.trades, symbol)
            /\ DOMAIN openOrders = DOMAIN pre.openOrders
            /\ \A s \in DOMAIN pre.openOrders :
                  openOrders[s] = IF s = symbol
                                  THEN SelectSeq(pre.openOrders[s], kept)
                                  ELSE pre.openOrders[s]
            /\ \A o \in AllOpenOrders([s \in {symbol} \cap DOMAIN pre.openOrders
                                          |-> pre.openOrders[s]]) :
                  o.tradeid = "" => kept(o)

(* a position of several lots has been closed; a lot that is not the first *)
(* had protective orders, and the symbol had orders without a tradeid      *)
C18_Witness ==
    /\ last.op = "closePosition" /\ ~last.threw
    /\ Len(Get(pre.trades, last.symbol)) >= 2
    /\ \E t \in 2..Len(Get(pre.trades, last.symbol)) :
          \E o \in AllOpenOrders(pre.openOrders) :
              o.tradeid = pre.trades[last.symbol][t].id
    /\ \E i \in 1..Len(Get(openOrders, last.symbol)) :
          openOrders[last.symbol][i].tradeid = ""

(* C19: closeTrade(trade) removes exactly the lot with trade.id and the    *)
(* open orders whose tradeid is trade.id; when other lots stay open it     *)
(* sets position.quantity to oldQty - lotQty and position.basis to         *)
(* (oldQty*oldBasis - lotQty*lotBasis)/(oldQty - lotQty) rounded to 2      *)
(* decimals, and when lotQty equals the position's quantity it deletes the *)
(* position.                                                               *)
ClosedLot ==
    pre.trades[last.symbol][IndexOfTrade(pre.trades[last.symbol], last.id)]

C19_CloseTrade ==
    (last.op = "closeTrade" /\ ~last.threw) =>
        LET symbol == last.symbol
            old == pre.positions[symbol]
            lot == ClosedLot
            den == old.quantity - lot.quantity
            num == old.quantity * old.basis - lot.quantity * lot.basis
        IN  /\ trades = [pre.trades EXCEPT ![symbol] =
                            SelectSeq(@, LAMBDA t : t.id # last.id)]
            /\ Len(trades[symbol]) = Len(pre.trades[symbol]) - 1
            /\ openOrders =
                 IF Has(pre.openOrders, symbol)
                 THEN [pre.openOrders EXCEPT ![symbol] =
                          SelectSeq(@, LAMBDA o : o.tradeid # last.id)]
                 ELSE pre.openOrders
            /\ \A s \in DOMAIN pre.positions \ {symbol} :
                  Has(positions, s) /\ positions[s] = pre.positions[s]
            /\ Len(pre.trades[symbol]) > 1 =>
                  /\ Has(positions, symbol)
                  /\ positions[symbol].quantity = den
                  /\ 2 * Abs(positions[symbol].basis * den - num) <= Abs(den)
            /\ lot.quantity = old.quantity => ~Has(positions, symbol)

(* a lot with protective orders has been closed while other lots stay      *)
(* open, and the basis of the position has changed                         *)
C19_Witness ==
    /\ last.op = "closeTrade" /\ ~last.threw
    /\ Len(pre.trades[last.symbol]) > 1
    /\ \E o \in AllOpenOrders(pre.openOrders) : o.tradeid = last.id
    /\ Has(positions, last.symbol)
    /\ positions[last.symbol].basis # pre.positions[last.symbol].basis

(* C20, as stated: tradability(symbol, cb) reports tradable=false when the *)
(* symbol is absent, when it contains '$', and when it is a 7-character    *)
(* symbol containing '^'; for every other symbol it reports tradable,      *)
(* shortable and marketable all true; cb is invoked exactly once.          *)
Absent == ~symbolArg.given \/ symbolArg.chars = <<>>

C20_Tradability ==
    reported.called =>
        /\ reported.cb = 1
        /\ IF \/ Absent
              \/ Contains(symbolArg.chars, "$")
              \/ (Len(symbolArg.chars) = 7 /\ Contains(symbolArg.chars, "^"))
           THEN ~reported.tradable
           ELSE reported.tradable /\ reported.shortable
                    /\ reported.marketable

(* C20, amended: tradable=false when the symbol is absent, when it         *)
(* contains '$', and when it contains '^' and is not 7 characters long;    *)
(* for every other symbol tradable, shortable and marketable are all true; *)
(* cb is invoked exactly once in every case.                               *)
C20_TradabilityForex ==
    reported.called =>
        /\ reported.cb = 1
        /\ IF \/ Absent
              \/ Contains(symbolArg.chars, "$")
              \/ (Len(symbolArg.chars) # 7 /\ Contains(symbolArg.chars, "^"))
           THEN ~reported.tradable
           ELSE reported.tradable /\ reported.shortable
                    /\ reported.marketable

(* tradability has answered for a 7-character symbol with a '^' and no '$' *)
C20_Witness ==
    /\ reported.called
    /\ Len(symbolArg.chars) = 7
    /\ Contains(symbolArg.chars, "^")
    /\ ~Contains(symbolArg.chars, "$")
    /\ reported.tradable

(* C21: when a fetch fails (fetchBalances receiving a status other than    *)
(* 200), balances is left exactly as it was and the completion callback is *)
(* still invoked exactly once.                                             *)
C21_FailedFetchKeepsCache ==
    (last.op = "fetchBalances" /\ last.status # 200) =>
        /\ balances = pre.balances
        /\ last.cb = 1

(* a fetch has failed on balances that had been fetched and then changed   *)
(* by a fill                                                               *)
C21_Witness ==
    /\ last.op = "fetchBalances" /\ last.status # 200
    /\ balances.state = "number"
    /\ balances \notin Payloads

(* C22: after every successful fetchBalances, balances equals the fetched  *)
(* payload, also when balances was already populated or was changed by     *)
(* earlier fills.                                                          *)
C22_FetchOverwrites ==
    (last.op = "fetchBalances" /\ last.status = 200) =>
        balances = last.payload

(* C23: if Account.confirmOrder returns a confirmation whose errors array *)
(* is present, the controller never calls an Account mutation for that     *)
(* order: from the confirmation on, the request has called none.           *)
C23_ErrorsBlockSubmission == tfc.trail.errors => tfc.trail.calls = <<>>

(* a confirmation with errors is displayed while the submit button still   *)
(* holds the handler of an earlier, abandoned order                        *)
C23_Witness ==
    /\ tfc.trail.errors
    /\ tfc.dialog = "tfcConfirmOrder"
    /\ tfc.submitHidden
    /\ tfc.submit["tfcConfirmOrder"] # NoRequest
    /\ tfc.trail.gui \in {"order", "cancel", "closeTrade", "closePosition"}

(* C24: with skipConfirms set, every user-initiated operation (single      *)
(* order, OCO/bracket, replace, cancel, close trade, close position, vsp   *)
(* reduce of a lot, close all positions) calls the Account mutation        *)
(* directly, with no Account.confirmOrder call and no dialog to accept.    *)
C24_SkipConfirmsIsDirect ==
    (tfc.skipConfirms /\ tfc.trail.gui # "") =>
        /\ tfc.trail.confirmOrder = 0
        /\ tfc.trail.dialogs = 0
        /\ Len(tfc.trail.calls) = 1

(* C25: when a mutation callback (placeOrder, replaceOrder, setProtection  *)
(* or cancelOrder) fires with a truthy err, the controller makes no change *)
(* to its cached orders and lots: no order is inserted, updated, given a   *)
(* new id or marked cancelled, whatever result accompanies the error.      *)
C25_ErrSkipsPatch ==
    (/\ last.op = "callback"
     /\ last.err
     /\ last.call \in {"placeOrder", "replaceOrder", "setProtection",
                       "cancelOrder"}) =>
        /\ openOrders = pre.openOrders
        /\ trades = pre.trades
        /\ tfc.cancelled = pre.cancelled

(* the replace changes nothing: its new quantity, prices, tif and oto are  *)
(* the old ones                                                            *)
NothingChanged(request) ==
    /\ request.order.quantity = request.old.quantity
    /\ request.order.limit = request.old.limit
    /\ request.order.stop = request.old.stop
    /\ request.order.marketIfTouched = request.old.marketIfTouched
    /\ request.order.tif = request.old.tif
    /\ request.order.oto = request.old.oto

(* C26: a replace whose new quantity, price, tif and oto all equal the old *)
(* values is never submitted to Account.replaceOrder, in every controller  *)
(* configuration.                                                          *)
C26_UnchangedReplaceNotSubmitted ==
    (tfc.trail.gui = "replace" /\ NothingChanged(tfc.trail.request)) =>
        tfc.trail.calls = <<>>

(* the last step was a fill that execute treats as closing: a sell or a   *)
(* cover after the reclassification against a short position               *)
IsClosing ==
    /\ IsFill
    /\ reclassify(pre.positions, last.symbol, last.order.action)
           \in {"sell", "cover"}

LotsBefore == Get(pre.trades, last.symbol)

LotsAfter == Get(trades, last.symbol)

LotIds(tr) == {tr[i].id : i \in 1..Len(tr)}

(* C27: a closing fill without vspId consumes the symbol's lots in list    *)
(* order: for some k the first k lots are removed, at most the next lot is *)
(* left partially reduced, and every lot after it is untouched; only when  *)
(* all the lots were removed may a lot be appended.                        *)
C27_OldestFirst ==
    (IsClosing /\ last.order.vspId = "") =>
        \E k \in 0..Len(LotsBefore) :
            LET tail == SubSeq(LotsBefore, k + 1, Len(LotsBefore))
            IN  \/ LotsAfter = tail
                \/ /\ tail # <<>>
                   /\ Len(LotsAfter) = Len(tail)
                   /\ Abs(LotsAfter[1].quantity) < Abs(tail[1].quantity)
                   /\ LotsAfter[1].quantity * tail[1].quantity > 0
                   /\ LotsAfter =
                        [tail EXCEPT ![1].quantity = LotsAfter[1].quantity]
                \/ /\ tail = <<>>
                   /\ Len(LotsAfter) = 1
                   /\ LotsAfter[1].id \notin LotIds(LotsBefore)

(* a sell without vspId removed at least one lot and reduced the next,     *)
(* leaving a later lot as it was                                           *)
C27_Witness ==
    /\ IsClosing /\ last.order.vspId = ""
    /\ Len(LotsBefore) >= 3
    /\ Len(LotsAfter) >= 2
    /\ Len(LotsAfter) < Len(LotsBefore)
    /\ LotsAfter[1].id \in LotIds(LotsBefore)
    /\ \E i \in 1..Len(LotsBefore) :
          /\ LotsBefore[i].id = LotsAfter[1].id
          /\ LotsBefore[i].quantity # LotsAfter[1].quantity

(* the lots a closing fill may consume *)
Available ==
    SelectSeq(LotsBefore,
              LAMBDA lot : last.order.vspId = "" \/ lot.id = last.order.vspId)

AbsQty(tr) == IF SumQty(tr) < 0 THEN -SumQty(tr) ELSE SumQty(tr)

(* C28: when a closing fill's quantity exceeds the total quantity of the   *)
(* lots available to it, all those lots are removed and exactly one new    *)
(* lot is appended whose quantity is the residual with the sign of the     *)
(* fill and whose basis is the fill price; the position's quantity takes   *)
(* the sign of the fill.                                                   *)
C28_OverClose ==
    (IsClosing /\ last.order.quantity > AbsQty(Available)) =>
        LET kept == SelectSeq(LotsBefore,
                              LAMBDA lot : lot.id \notin LotIds(Available))
            new == LotsAfter[Len(LotsAfter)]
        IN  /\ Len(LotsAfter) = Len(kept) + 1
            /\ SubSeq(LotsAfter, 1, Len(kept)) = kept
            /\ new.id \notin LotIds(LotsBefore)
            /\ new.quantity = FillQty + SumQty(Available)
            /\ new.quantity * FillQty > 0
            /\ new.basis = last.price
            /\ PositionQty(positions, last.symbol) * FillQty > 0
            /\ PositionQty(pre.positions, last.symbol) * FillQty <= 0

(* a closing fill larger than the lots it closed has removed at least two  *)
(* lots                                                                    *)
C28_Witness ==
    /\ IsClosing
    /\ last.order.quantity > AbsQty(Available)
    /\ Len(Available) >= 2
    /\ Len(LotsAfter) = 1

(* a lot that the closing fill left with a smaller, non-zero quantity *)
PartlyAbsorbed(i) ==
    /\ LotsBefore[i].protect.has
    /\ \E j \in 1..Len(LotsAfter) :
          /\ LotsAfter[j].id = LotsBefore[i].id
          /\ Abs(LotsAfter[j].quantity) < Abs(LotsBefore[i].quantity)

Remaining(id) ==
    LET j == CHOOSE j \in 1..Len(LotsAfter) : LotsAfter[j].id = id
    IN  Abs(LotsAfter[j].quantity)

ReferencingAfter(id) ==
    LET oo == Get(openOrders, last.symbol)
    IN  {n \in 1..Len(oo) : oo[n].tradeid = id}

(* the quantity the open order of that id had before the fill *)
QuantityBefore(id) ==
    LET oo == Get(pre.openOrders, last.symbol)
        m == CHOOSE m \in 1..Len(oo) : oo[m].id = id
    IN  oo[m].quantity

(* C29: when a closing fill partially absorbs a protected lot, every open  *)
(* order referencing that lot has its quantity decremented by what the lot *)
(* lost in absolute value, so that it equals the absolute value of the     *)
(* lot's remaining quantity if it equalled the lot's before, for long lots *)
(* and for short lots; when a lot is fully absorbed every open order       *)
(* referencing it is removed.                                              *)
C29_ProtectionFollowsLot ==
    IsClosing =>
        \A i \in 1..Len(LotsBefore) :
            /\ PartlyAbsorbed(i) =>
                  \A n \in ReferencingAfter(LotsBefore[i].id) :
                      LET o2 == Get(openOrders, last.symbol)[n]
                      IN  o2.quantity - Remaining(LotsBefore[i].id)
                            = QuantityBefore(o2.id)
                                - Abs(LotsBefore[i].quantity)
            /\ (/\ LotsBefore[i].id \notin LotIds(LotsAfter)
                /\ (last.order.vspId = ""
                       \/ LotsBefore[i].id = last.order.vspId)) =>
                  ReferencingAfter(LotsBefore[i].id) = {}

(* C30: every execute(order, price) changes balances.cash by minus (signed *)
(* quantity x price), the signed quantity being negative for sell/short,   *)
(* and leaves balances.buyingPower equal to 2 x balances.cash.             *)
C30_CashFollowsFills ==
    IsFill =>
        /\ balances.state = "number"
        /\ balances.cash = pre.balances.cash - FillQty * last.price
        /\ balances.buyingPower = 2 * balances.cash

(* C35: in every reachable state of the Demo account, every open order     *)
(* that has a tradeid references a lot that exists in trades of the same   *)
(* symbol.                                                                 *)
C35_NoOrphanProtection ==
    \A symbol \in DOMAIN openOrders :
        \A i \in 1..Len(openOrders[symbol]) :
            openOrders[symbol][i].tradeid # "" =>
                openOrders[symbol][i].tradeid \in LotIds(Get(trades, symbol))

(* the lot that the fill appended, and the open orders synthesized for it *)
(* a protected lot, with its protective orders in the book, has just been  *)
(* removed by a close or by a fill                                         *)
C35_Witness ==
    /\ last.op \in {"closeTrade", "closePosition", "closeAllPositions", "placeOrder"}
    /\ \E i \in 1..Len(LotsBefore) :
           /\ LotsBefore[i].id \notin LotIds(LotsAfter)
           /\ \E n \in 1..Len(Get(pre.openOrders, last.symbol)) :
                  pre.openOrders[last.symbol][n].tradeid = LotsBefore[i].id

NewLots ==
    {LotsAfter[i] : i \in {j \in 1..Len(LotsAfter) :
                              LotsAfter[j].id \notin LotIds(LotsBefore)}}

Synthesized(lot) ==
    LET oo == Get(openOrders, last.symbol)
    IN  {oo[n] : n \in {m \in 1..Len(oo) : oo[m].tradeid = lot.id}}

(* C36: the protective orders that execute synthesizes for a new lot close *)
(* that lot: their action is "sell" when the lot is long and "cover" when  *)
(* it is short, for every originating action.                              *)
C36_ProtectionClosesLot ==
    IsFill =>
        \A lot \in NewLots : \A o \in Synthesized(lot) :
            o.action = IF lot.quantity > 0 THEN "sell" ELSE "cover"

(* the fill flipped the position to the opposite side *)
Flipped ==
    /\ IsClosing
    /\ PositionQty(pre.positions, last.symbol)
           * PositionQty(positions, last.symbol) < 0

(* C37: when a closing fill over-closes a position and flips it to the     *)
(* opposite side, the position's basis afterwards equals the fill price.   *)
C37_FlippedBasisIsFillPrice ==
    Flipped => positions[last.symbol].basis = last.price

(* the operations of the account that are not fills *)
NotAFill ==
    \/ last.op \in {"closeAllPositions", "closePosition", "closeTrade",
                    "cancelOrder", "replaceOrder", "setProtection",
                    "placeOCO"}
    \/ /\ last.op = "placeOrder"
       /\ last.order.limit # 0 \/ last.order.stop # 0

(* C38: only execute modifies balances: closeAllPositions, closePosition,  *)
(* closeTrade, cancelOrder, replaceOrder, setProtection and placeOrder of  *)
(* an order that rests leave balances.cash and balances.buyingPower        *)
(* unchanged.                                                              *)
C38_OnlyFillsTouchBalances == NotAFill => balances = pre.balances

(* a close, a cancel, a replace, a protection or a resting order has acted *)
(* after a fill had changed the balances                                   *)
C38_Witness ==
    /\ NotAFill
    /\ balances # NoBalances
    /\ \/ trades # pre.trades
       \/ openOrders # pre.openOrders

(* the renders of the k-th updateData call: one at the start, the second   *)
(* exactly when none of its four callbacks is due any more                 *)
RendersInPhase(k) ==
    /\ updates[k].fetched = 4 - Cardinality(updates[k].due)
    /\ updates[k].renders = IF updates[k].due = {} THEN <<0, 4>> ELSE <<0>>

(* C32: each updateData call renders once immediately, and a second time   *)
(* exactly once and only after all four of its fetch callbacks have fired, *)
(* in whatever order and also when calls overlap; if every fetch           *)
(* eventually calls back, the second render eventually happens.            *)
C32_TwoPhaseRender ==
    /\ [](\A k \in 1..Len(updates) : RendersInPhase(k))
    /\ \A k \in 1..MaxUpdates :
           (Len(updates) >= k) ~> (Len(updates) >= k /\ Len(updates[k].renders) = 2)

(* two overlapping calls: the later one has rendered twice while the       *)
(* earlier one still waits for a callback                                  *)
C32_Witness ==
    /\ Len(updates) >= 2
    /\ updates[2].renders = <<0, 4>>
    /\ updates[1].renders = <<0>>
    /\ updates[1].fetched = 3

(* an order or a replace has been built from the form *)
Built == last.op \in {"createOrderFromGUI", "createReplaceFromGUI"}

(* the market price for the built order's action: the snapped ask for a    *)
(* buy or a cover, the snapped bid for a sell or a short                   *)
Market ==
    getCurrentPriceForOrder(tfc.form.quote, last.order.action, tfc.form.minTick)

(* the side the claim gives the drag line's price *)
LimitSide ==
    IF last.order.action \in {"buy", "cover"}
    THEN tfc.form.centerPrice <= Market
    ELSE tfc.form.centerPrice >= Market

(* the built order carries the drag line's price on the claim's side, and  *)
(* nothing on the other                                                    *)
Classified ==
    IF LimitSide
    THEN last.order.limit = tfc.form.centerPrice /\ last.order.stop = 0
    ELSE last.order.stop = tfc.form.centerPrice /\ last.order.limit = 0

(* C31 as stated: every built order or replace carries the price as a      *)
(* limit (buy/cover at or below market, sell/short at or above) or as a    *)
(* stop (otherwise), exactly one of the two.                               *)
C31_ExactlyOneOfLimitStop == Built => Classified

(* C31: the same, except that an order built while the form is flipped to  *)
(* market carries neither a limit nor a stop; a replace is classified even *)
(* then.                                                                   *)
C31_ClassifiedUnlessMarket ==
    Built =>
        IF last.op = "createOrderFromGUI" /\ tfc.form.limitFlippedToMarket
        THEN last.order.limit = 0 /\ last.order.stop = 0
        ELSE Classified

(* a buy built with the line exactly at the market price: a limit *)
C31_Witness ==
    /\ last.op = "createOrderFromGUI"
    /\ ~tfc.form.limitFlippedToMarket
    /\ last.order.action = "buy"
    /\ tfc.form.centerPrice = Market
    /\ last.order.limit = tfc.form.centerPrice

(* the callback of a placeOrder of a two-leg OCO has received the two ids *)
OCOPlaced ==
    /\ last.op = "callback"
    /\ last.call = "placeOrder"
    /\ Len(last.legs) = 2
    /\ last.result.defined
    /\ Len(last.result.id) = 2

(* C33: after placeOrder of a two-leg OCO array completes with the ids     *)
(* [id1, id2], the open orders of the symbol hold the two legs as two      *)
(* separate open orders with ids id1 and id2 whose oco fields reference    *)
(* each other's ids.                                                       *)
C33_OCOLegsCachedSeparately ==
    OCOPlaced =>
        LET oo == Get(openOrders, last.symbol)
        IN  \E i, j \in 1..Len(oo) :
                /\ oo[i].id = last.result.id[1]
                /\ oo[j].id = last.result.id[2]
                /\ oo[i].oco = oo[j].id
                /\ oo[j].oco = oo[i].id

(* the callback of a placeOrder, replaceOrder or setProtection has fired *)
Patched ==
    /\ last.op = "callback"
    /\ last.call \in {"placeOrder", "replaceOrder", "setProtection"}

(* the symbol of the submitted order, or of its legs *)
OrderSymbol ==
    IF last.legs # <<>> THEN last.legs[1].symbol ELSE last.order.symbol

(* C39: the optimistic patch of placeOrder, replaceOrder or setProtection  *)
(* is applied to the symbol of the submitted order: also when the chart's  *)
(* symbol has changed since the call, the open orders and lots of every    *)
(* other symbol are left as they were.                                     *)
C39_PatchOnOrderSymbol ==
    Patched =>
        \A symbol \in Symbols \ {OrderSymbol} :
            /\ Get(openOrders, symbol) = Get(pre.openOrders, symbol)
            /\ Get(trades, symbol) = Get(pre.trades, symbol)

(* STX.TFC.prototype.placeOrder has been called with the close request *)
CloseHandled ==
    /\ tfc.trail.request.type = "close"
    /\ tfc.trail.placed > 0

(* C40: every close request the controller's placeOrder handles ends in    *)
(* exactly one completion step: while the Account's close is in flight     *)
(* none has run yet, and otherwise, also for a request whose lot id        *)
(* matches no lot of the symbol, exactly one has run.                      *)
C40_CloseCompletesOnce ==
    CloseHandled =>
        tfc.trail.finished = IF tfc.pending # NoCall THEN 0 ELSE 1

(* the open orders of the placed order's symbol that carry its id *)
CopiesOfPlaced ==
    LET oo == Get(openOrders, last.symbol)
    IN  {i \in 1..Len(oo) : oo[i].id = last.id}

(* the patch of a setProtection result has been applied a second time *)
PatchedTwice == last.op = "setProtectionAgain"

(* C34: when the account itself rested the placed order and returned its   *)
(* id, then after the controller's patch and the refresh the order is in   *)
(* the symbol's open orders exactly once; and applying the same            *)
(* setProtection result a second time changes neither the open orders nor  *)
(* the lots.                                                               *)
C34_NoDuplicates ==
    /\ (last.op = "placeOrder" /\ last.result.defined) =>
           Cardinality(CopiesOfPlaced) = 1
    /\ PatchedTwice => (openOrders = pre.openOrders /\ trades = pre.trades)

====
